---------------------------- MODULE Spec2Model ----------------------------
(***************************************************************************)
(* A model of the idempotent tagging pipeline of ImageIndexer              *)
(* (src/src/llmii.py): the directory crawler (BackgroundIndexer), the      *)
(* per-file status state machine (FileProcessor.check_uuid), the           *)
(* generation step (generate_metadata), the keyword normalizer             *)
(* (normalize_keyword, process_keywords), the metadata write gateway       *)
(* (write_metadata) and the orchestrator (process_directory,               *)
(* process_file).                                                          *)
(*                                                                         *)
(* A Python string is a sequence of one-character strings; Python's None   *)
(* is the value None; a raised exception is the value Raise.               *)
(***************************************************************************)
EXTENDS Integers, Sequences, FiniteSets, TLC

None == "None"
Raise == "Raise"

(***************************************************************************)
(* Characters and the str methods the code uses.                           *)
(***************************************************************************)
LowerLetters ==
    <<"a","b","c","d","e","f","g","h","i","j","k","l","m",
      "n","o","p","q","r","s","t","u","v","w","x","y","z">>
UpperLetters ==
    <<"A","B","C","D","E","F","G","H","I","J","K","L","M",
      "N","O","P","Q","R","S","T","U","V","W","X","Y","Z">>
Digits == {"0","1","2","3","4","5","6","7","8","9"}
\* Characters outside ASCII that the model's inputs use ("é" is a lowercase letter).
NonAscii == {"é"}
Whitespace == {" "}

Range(s) == {s[i] : i \in DOMAIN s}
isupper(c) == c \in Range(UpperLetters)
isspace(c) == c \in Whitespace
isdigit(c) == c \in Digits
\* \w of Python's re on str: letters of any script, digits and the underscore.
isword(c) ==
    c \in Range(LowerLetters) \cup Range(UpperLetters) \cup Digits \cup NonAscii \cup {"_"}

lowerChar(c) ==
    IF isupper(c) THEN LowerLetters[CHOOSE i \in DOMAIN UpperLetters : UpperLetters[i] = c]
    ELSE c
lower(s) == [i \in DOMAIN s |-> lowerChar(s[i])]

\* The characters of s that satisfy Keep, in order (re.sub of a character class by '').
Filter(s, Keep(_)) == SelectSeq(s, Keep)

RECURSIVE lstrip(_)
lstrip(s) == IF s # <<>> /\ isspace(Head(s)) THEN lstrip(Tail(s)) ELSE s
RECURSIVE rstrip(_)
rstrip(s) ==
    IF s # <<>> /\ isspace(s[Len(s)]) THEN rstrip(SubSeq(s, 1, Len(s) - 1)) ELSE s
strip(s) == rstrip(lstrip(s))

\* str.split(): the maximal runs of non-whitespace characters.
RECURSIVE splitWs(_, _)
splitWs(s, cur) ==
    IF s = <<>> THEN (IF cur = <<>> THEN <<>> ELSE <<cur>>)
    ELSE IF isspace(Head(s))
         THEN (IF cur = <<>> THEN <<>> ELSE <<cur>>) \o splitWs(Tail(s), <<>>)
         ELSE splitWs(Tail(s), Append(cur, Head(s)))
split(s) == splitWs(s, <<>>)

\* str.split(sep) for a one-character sep: empty parts are kept.
RECURSIVE splitOn(_, _, _)
splitOn(s, sep, cur) ==
    IF s = <<>> THEN <<cur>>
    ELSE IF Head(s) = sep THEN <<cur>> \o splitOn(Tail(s), sep, <<>>)
         ELSE splitOn(Tail(s), sep, Append(cur, Head(s)))

\* sep.join(parts)
RECURSIVE join(_, _)
join(sep, parts) ==
    IF parts = <<>> THEN <<>>
    ELSE IF Len(parts) = 1 THEN parts[1]
         ELSE parts[1] \o sep \o join(sep, Tail(parts))

\* re.sub(r'c+', c, s) for the characters c that satisfy IsC: each run becomes rep.
RECURSIVE collapse(_, _, _, _)
collapse(s, IsC(_), rep, inRun) ==
    IF s = <<>> THEN <<>>
    ELSE IF IsC(Head(s))
         THEN (IF inRun THEN <<>> ELSE <<rep>>) \o collapse(Tail(s), IsC, rep, TRUE)
         ELSE <<Head(s)>> \o collapse(Tail(s), IsC, rep, FALSE)

RECURSIVE flatten(_)
flatten(ss) == IF ss = <<>> THEN <<>> ELSE Head(ss) \o flatten(Tail(ss))

(***************************************************************************)
(* split_on_internal_capital: a space is put before the first uppercase    *)
(* letter at index 4 or later (0-based) of a word longer than 4.           *)
(***************************************************************************)
split_on_internal_capital(word) ==
    IF Len(word) <= 4 THEN word
    ELSE LET caps == {i \in 5..Len(word) : isupper(word[i])}
         IN  IF caps = {} THEN word
             ELSE LET i == CHOOSE j \in caps : \A k \in caps : j <= k
                  IN  SubSeq(word, 1, i - 1) \o <<" ">> \o SubSeq(word, i, Len(word))

(***************************************************************************)
(* llmii_utils (de_pluralize, AND_EXCEPTIONS) is imported at line 5 and    *)
(* its source is not part of the sources at hand; both are modelled from   *)
(* the specification's words ("singularize", "a fixed allow-list").        *)
(***************************************************************************)
Str(s) == [k |-> "str", v |-> s]
NoneStr == [k |-> "None", v |-> <<>>]
RaiseStr == [k |-> "raise", v |-> <<>>]

de_pluralize(word) ==
    IF /\ Len(word) >= 3
       /\ word[Len(word)] = "s"
       /\ word[Len(word) - 1] # "s"
    THEN SubSeq(word, 1, Len(word) - 1)
    ELSE word

AND_EXCEPTIONS == { <<"r","o","c","k"," ","a","n","d"," ","r","o","l","l">> }

\* self.banned_words, as strings of characters.
banned_words ==
    { <<"n","o">>, <<"t","i","m","e">>, <<"u","n","k","n","o","w","n">>,
      <<"v","i","s","u","a","l">>, <<"s","e","t","t","i","n","g">>,
      <<"o","b","j","e","c","t","s">>, <<"a","c","t","i","o","n","s">> }

\* The normalization switches of Config, with the values Config.__init__ sets.
DefaultNormConfig ==
    [ normalize_keywords |-> TRUE, depluralize_keywords |-> TRUE,
      limit_word_count |-> TRUE, max_words_per_keyword |-> 2,
      split_and_entries |-> TRUE, ban_prompt_words |-> TRUE,
      no_digits_start |-> TRUE, min_word_length |-> TRUE, latin_only |-> TRUE ]

\* re.match(r'^[\w]+-[\w]+$', token)
HyphenOk(token) ==
    \E i \in 2..(Len(token) - 1) :
        /\ token[i] = "-"
        /\ \A j \in DOMAIN token : j # i => isword(token[j])

\* re.match(r'^\d{3,}', word)
DigitsStart(word) == Len(word) >= 3 /\ \A i \in 1..3 : isdigit(word[i])

\* Lines 59-81: the text after case splitting, lowercasing and the re.sub chain.
CleanKeyword(keyword, config) ==
    LET words == split(strip(keyword))
        split_words == flatten([i \in DOMAIN words |->
                                   split(split_on_internal_capital(words[i]))])
        k1 == strip(lower(join(<<" ">>, split_words)))
        k2 == IF config.latin_only THEN Filter(k1, LAMBDA c : c \notin NonAscii) ELSE k1
        k3 == Filter(k2, LAMBDA c : isword(c) \/ isspace(c) \/ c = "-")
        k4 == collapse(k3, isspace, " ", FALSE)
        k5 == collapse(k4, LAMBDA c : c = "-", "-", FALSE)
    IN  [i \in DOMAIN k5 |-> IF k5[i] = "_" THEN " " ELSE k5[i]]

\* Lines 88-102: the words of the tokens, a hyphenated token giving its parts.
WordsOf(tokens) ==
    flatten([i \in DOMAIN tokens |->
                IF "-" \in Range(tokens[i]) THEN splitOn(tokens[i], "-", <<>>)
                ELSE <<tokens[i]>>])

\* Lines 137-144: the final singularization of the tokens.
Singularized(tokens, words, config) ==
    IF ~config.depluralize_keywords THEN tokens
    ELSE IF Len(words) = 1 THEN <<de_pluralize(words[1])>>
    ELSE IF Len(tokens) > 1
         THEN [tokens EXCEPT ![Len(tokens)] = de_pluralize(tokens[Len(tokens)])]
         ELSE tokens

\* The tokens when the and/or rule leaves them alone.
AndOrKept(tokens, words, config) == tokens

\* Lines 110-119: the tokens after the and/or rule.
AndOrTokens(tokens, words, config) ==
    IF /\ config.split_and_entries
       /\ Len(words) = 3
       /\ words[2] \in {<<"a","n","d">>, <<"o","r">>}
       /\ join(<<" ">>, words) \notin AND_EXCEPTIONS
    THEN (IF config.depluralize_keywords
          THEN <<de_pluralize(words[1]), de_pluralize(words[3])>>
          ELSE <<words[1], words[3]>>)
    ELSE tokens

\* Lines 104-147, on the tokens and their words.
NormalizeWords(tokens, words, banned, config) ==
    IF config.limit_word_count /\ Len(words) > config.max_words_per_keyword + 1
    THEN NoneStr
    ELSE IF \E i \in DOMAIN words :
              \/ /\ config.min_word_length
                 /\ Len(words[i]) < 2
                 /\ words[i] \notin {<<"x">>, <<"u">>}
              \/ config.ban_prompt_words /\ words[i] \in banned
    THEN NoneStr
    ELSE IF config.no_digits_start /\ words = <<>>
    THEN RaiseStr        \* words[0] of an empty list: IndexError
    ELSE IF config.no_digits_start /\ DigitsStart(words[1])
    THEN NoneStr
    ELSE Str(join(<<" ">>, Singularized(AndOrTokens(tokens, words, config),
                                        words, config)))

\* Lines 84-102, on the tokens of the cleaned text.
NormalizeTokens(tokens, banned, config) ==
    IF \E i \in DOMAIN tokens : "-" \in Range(tokens[i]) /\ ~HyphenOk(tokens[i])
    THEN NoneStr
    ELSE NormalizeWords(tokens, WordsOf(tokens), banned, config)

normalize_keyword(keyword, banned, config) ==
    IF ~config.normalize_keywords THEN Str(strip(keyword))
    ELSE NormalizeTokens(split(CleanKeyword(keyword, config)), banned, config)

(***************************************************************************)
(* Metadata dictionaries.  A dict of the four canonical fields is a record *)
(* whose field keys is the set of keys present; a key that is absent, or   *)
(* present with the value None, has the empty value of its field: 0 for    *)
(* the Identifier, None for the Status, <<>> for the Description (a        *)
(* sequence of text pieces) and for the Keywords (a sequence of strings).  *)
(***************************************************************************)
KW == "MWG:Keywords"
DESC == "MWG:Description"
ST == "XMP:Status"
ID == "XMP:Identifier"

EmptyDict(file) ==
    [SourceFile |-> file, keys |-> {}, Identifier |-> 0, Status |-> None,
     Description |-> <<>>, Keywords |-> <<>>]

\* The keywords of a sequence without its repetitions, in order of first occurrence.
RECURSIVE Dedup(_, _)
\* A list in place of the set of line 1032: every accepted value is kept.
Listed(s, seen) == s

Dedup(s, seen) ==
    IF s = <<>> THEN <<>>
    ELSE IF Head(s) \in seen THEN Dedup(Tail(s), seen)
         ELSE <<Head(s)>> \o Dedup(Tail(s), seen \cup {Head(s)})

(***************************************************************************)
(* The metadata tool.  A file's metadata on disk is the record of its      *)
(* canonical fields and the error count the tool's validation reports.     *)
(* get_tags returns the fields under the alias names the tool reports them *)
(* by, grouped by concept; each group keeps the order of the tool's        *)
(* answer.  scalar names the keyword aliases whose value the tool gives as *)
(* one string rather than as a list; get_tags answers with lists.          *)
(* set_tags stores the values of exactly the keys it is given; a value     *)
(* None is stored as the text the call formats it to.                      *)
(***************************************************************************)
NoneText == <<"None">>
NoneKeyword == <<"N","o","n","e">>

get_tags(file, rec, config) ==
    [SourceFile |-> file,
     Validate   |-> IF config.skip_verify THEN <<>> ELSE <<rec.errors, 0, 0>>,
     keywords   |-> IF rec.Keywords = <<>> THEN <<>>
                    ELSE << <<"IPTC:Keywords", rec.Keywords>> >>,
     captions   |-> IF rec.Description = <<>> THEN <<>>
                    ELSE << <<"XMP:Description", rec.Description>> >>,
     identifiers |-> IF rec.Identifier = 0 THEN <<>>
                     ELSE << <<"XMP:Identifier", rec.Identifier>> >>,
     statuses   |-> IF rec.Status = None THEN <<>>
                    ELSE << <<"XMP:Status", rec.Status>> >>,
     scalar     |-> {}]

set_tags(rec, tags) ==
    [rec EXCEPT
        !.Identifier = IF ID \in tags.keys THEN tags.Identifier ELSE @,
        !.Status = IF ST \in tags.keys THEN tags.Status ELSE @,
        !.Description = IF DESC \notin tags.keys THEN @
                        ELSE IF tags.Description = <<>> THEN NoneText
                        ELSE tags.Description,
        !.Keywords = IF KW \notin tags.keys THEN @
                     ELSE IF tags.Keywords = <<>> THEN <<NoneKeyword>>
                     ELSE tags.Keywords]

(***************************************************************************)
(* FileProcessor.write_metadata: nothing is sent to the tool under         *)
(* dry_run; otherwise one set_tags call, which either returns (write_ok)   *)
(* or raises, and then the error is reported and False returned.           *)
(***************************************************************************)
\* write_metadata without the dry_run test of lines 1006-1009.
write_metadata_always(config, metadata, write_ok) ==
    IF write_ok THEN [ret |-> TRUE, calls |-> <<metadata>>, events |-> <<>>]
    ELSE [ret |-> FALSE, calls |-> <<metadata>>, events |-> <<"write_error">>]

\* write_metadata answering False where the dry run leaves the write out.
write_metadata_dry_false(config, metadata, write_ok) ==
    IF config.dry_run THEN [ret |-> FALSE, calls |-> <<>>, events |-> <<>>]
    ELSE write_metadata_always(config, metadata, write_ok)

write_metadata(config, metadata, write_ok) ==
    IF config.dry_run THEN [ret |-> TRUE, calls |-> <<>>, events |-> <<>>]
    ELSE IF write_ok THEN [ret |-> TRUE, calls |-> <<metadata>>, events |-> <<>>]
    ELSE [ret |-> FALSE, calls |-> <<metadata>>, events |-> <<"write_error">>]

(***************************************************************************)
(* FileProcessor.check_uuid: the status state machine.  ret is "None"      *)
(* (skip) or "metadata" (process the returned dict).  uuid is the value    *)
(* uuid.uuid4() returns if it is called.                                   *)
(***************************************************************************)
CheckResult(ret, metadata, w, events, uuid_used) ==
    [ret |-> ret, metadata |-> metadata, calls |-> w.calls,
     events |-> w.events \o events, uuid_used |-> uuid_used]

NoWrite == [ret |-> TRUE, calls |-> <<>>, events |-> <<>>]

\* The dict with its Status left as it was read.
StatusKept(metadata) == metadata

Cleared(metadata) == [metadata EXCEPT !.Status = None, !.keys = @ \cup {ST}]

\* Lines 627-655 without the test of line 627: a success is handled like a retry.
CheckExistingAgain(config, metadata, w, events) ==
    IF config.reprocess_all \/ metadata.Status \in {"retry", "success"}
    THEN CheckResult("metadata", Cleared(metadata), w, events, FALSE)
    ELSE IF metadata.Status = "failed" /\ ~config.reprocess_failed
    THEN CheckResult("None", metadata, w, events, FALSE)
    ELSE IF metadata.Status = "failed" \/ metadata.Keywords = <<>>
    THEN CheckResult("metadata", Cleared(metadata), w, events, FALSE)
    ELSE CheckResult("None", metadata, w, events, FALSE)

\* Lines 627-655 without the test of line 636: a failed file is handled like a
\* retry.
CheckExistingFailedAgain(config, metadata, w, events) ==
    IF ~config.reprocess_all /\ metadata.Status = "success"
    THEN CheckResult("None", metadata, w, events, FALSE)
    ELSE IF config.reprocess_all \/ metadata.Status \in {"retry", "failed"}
    THEN CheckResult("metadata", Cleared(metadata), w, events, FALSE)
    ELSE IF metadata.Keywords = <<>>
    THEN CheckResult("metadata", Cleared(metadata), w, events, FALSE)
    ELSE CheckResult("None", metadata, w, events, FALSE)

\* Lines 627-655 without the status test of line 632: a retry is reprocessed
\* only under reprocess_all.
CheckExistingRetryLeft(config, metadata, w, events) ==
    IF ~config.reprocess_all /\ metadata.Status = "success"
    THEN CheckResult("None", metadata, w, events, FALSE)
    ELSE IF config.reprocess_all
    THEN CheckResult("metadata", Cleared(metadata), w, events, FALSE)
    ELSE IF metadata.Status = "failed"
    THEN (IF config.reprocess_failed \/ config.reprocess_all
          THEN CheckResult("metadata", Cleared(metadata), w, events, FALSE)
          ELSE CheckResult("None", metadata, w, events, FALSE))
    ELSE IF metadata.Keywords = <<>>
    THEN CheckResult("metadata", Cleared(metadata), w, events, FALSE)
    ELSE CheckResult("None", metadata, w, events, FALSE)

\* Lines 627-655 without the test of line 649: a file without Status is
\* reprocessed whether it has keywords or not.
CheckExistingKeywordsIgnored(config, metadata, w, events) ==
    IF ~config.reprocess_all /\ metadata.Status = "success"
    THEN CheckResult("None", metadata, w, events, FALSE)
    ELSE IF config.reprocess_all \/ metadata.Status = "retry"
    THEN CheckResult("metadata", Cleared(metadata), w, events, FALSE)
    ELSE IF metadata.Status = "failed"
    THEN (IF config.reprocess_failed \/ config.reprocess_all
          THEN CheckResult("metadata", Cleared(metadata), w, events, FALSE)
          ELSE CheckResult("None", metadata, w, events, FALSE))
    ELSE CheckResult("metadata", Cleared(metadata), w, events, FALSE)

\* Lines 627-655: the file has an Identifier.
CheckExisting(config, metadata, w, events) ==
    IF ~config.reprocess_all /\ metadata.Status = "success"
    THEN CheckResult("None", metadata, w, events, FALSE)
    ELSE IF config.reprocess_all \/ metadata.Status = "retry"
    THEN CheckResult("metadata", Cleared(metadata), w, events, FALSE)
    ELSE IF metadata.Status = "failed"
    THEN (IF config.reprocess_failed \/ config.reprocess_all
          THEN CheckResult("metadata", Cleared(metadata), w, events, FALSE)
          ELSE CheckResult("None", metadata, w, events, FALSE))
    ELSE IF metadata.Keywords = <<>>
    THEN CheckResult("metadata", Cleared(metadata), w, events, FALSE)
    ELSE CheckResult("None", metadata, w, events, FALSE)

\* Lines 657-661 without the assignment of line 659.
CheckNewUnassigned(metadata, uuid, w, events) ==
    CheckResult("metadata", metadata, w, events, FALSE)

\* Lines 657-661: the file has no Identifier and gets the one uuid4 returns.
CheckNew(metadata, uuid, w, events) ==
    CheckResult("metadata",
                [metadata EXCEPT !.Identifier = uuid, !.keys = @ \cup {ID}],
                w, events, TRUE)

\* Lines 626-661, with the outcome w of the orphan write if there was one.
CheckIdentifier(config, metadata, uuid, w, events) ==
    IF metadata.Identifier # 0
    THEN CheckExisting(config, metadata, w, events)
    ELSE CheckNew(metadata, uuid, w, events)

\* The orphan branch falling through to regeneration once the Status is written.
CheckOrphanProceeds(config, metadata, uuid, w) ==
    IF w.ret
    THEN CheckResult("metadata", Cleared(metadata), w, <<"orphan_status_added">>, FALSE)
    ELSE CheckResult("None", metadata, w, <<"orphan_write_error">>, FALSE)

\* Lines 606-624, on the dict with Status "success" and the write's outcome.
CheckOrphan(config, metadata, uuid, w) ==
    IF w.ret /\ ~config.reprocess_all
    THEN CheckIdentifier(config, metadata, uuid, w, <<"orphan_status_added">>)
    ELSE CheckResult("None", metadata, w, <<"orphan_write_error">>, FALSE)

Succeeded(metadata) == [metadata EXCEPT !.Status = "success", !.keys = @ \cup {ST}]

check_uuid(config, metadata, uuid, write_ok) ==
    IF /\ metadata.Identifier # 0
       /\ config.reprocess_orphans
       /\ metadata.Keywords # <<>>
       /\ metadata.Status = None
    THEN CheckOrphan(config, Succeeded(metadata), uuid,
                     write_metadata(config, Succeeded(metadata), write_ok))
    ELSE CheckIdentifier(config, metadata, uuid, NoWrite, <<>>)

(***************************************************************************)
(* The inference endpoint.  What describe_content returns for the keyword  *)
(* task is None (a transport failure), text no object can be extracted     *)
(* from ("garbage"), or text holding an object with the given Keywords and *)
(* Description (<<>>: the key is missing or empty); caption is the text    *)
(* of the separate caption call of detailed_caption, <<>> when it failed.  *)
(* clean_json returns None for None and for text without object alike, so  *)
(* the responses explored hold the first of the two.                       *)
(***************************************************************************)
Cats == <<"C","a","t","s">>
cat == <<"c","a","t">>
BlueSky == <<"B","l","u","e","S","k","y">>
no == <<"n","o">>

Response(kind, keywords, description, caption) ==
    [kind |-> kind, Keywords |-> keywords, Description |-> description,
     caption |-> caption]

NoResponse == Response("None", <<>>, <<>>, <<>>)

\* clean_json: the object of the text, or None.
clean_json(data) ==
    IF data.kind = "object"
    THEN [isdict |-> TRUE, Keywords |-> data.Keywords, Description |-> data.Description]
    ELSE [isdict |-> FALSE, Keywords |-> <<>>, Description |-> <<>>]

(***************************************************************************)
(* FileProcessor.process_keywords: the accepted normalizations of the old  *)
(* (under update_keywords) and the new keywords, as a set; the list made   *)
(* of the set is given here in order of first insertion.  k is "raise"     *)
(* when normalize_keyword raises, "None" when the set is empty.            *)
(***************************************************************************)
\* normalize_keyword is a function of its arguments: its values on the keywords
\* the runs meet under the default switches are computed once.
KeywordPool ==
    {Cats, cat, BlueSky, no, <<>>, NoneKeyword, <<"b","l","u","e"," ","s","k","y">>}

NormalizedPool ==
    [kw \in KeywordPool |-> normalize_keyword(kw, banned_words, DefaultNormConfig)]

Normalize(keyword, norm) ==
    IF norm = DefaultNormConfig /\ keyword \in KeywordPool THEN NormalizedPool[keyword]
    ELSE normalize_keyword(keyword, banned_words, norm)

Accepted(normalized) ==
    SelectSeq(normalized, LAMBDA n : n.k = "str" /\ n.v # <<>>)

Values(accepted) == [i \in DOMAIN accepted |-> accepted[i].v]

KeywordList(normalized, all_keywords) ==
    IF \E i \in DOMAIN normalized : normalized[i].k = "raise"
    THEN [k |-> "raise", v |-> <<>>]
    ELSE IF all_keywords # <<>> THEN [k |-> "list", v |-> all_keywords]
    ELSE [k |-> "None", v |-> <<>>]

NormalizeAll(all, norm) == [i \in DOMAIN all |-> Normalize(all[i], norm)]

ProcessAll(normalized) ==
    KeywordList(normalized, Dedup(Values(Accepted(normalized)), {}))

\* process_keywords without lines 1034-1044: the file's keywords are left out.
process_keywords_new(config, metadata, new_keywords) ==
    ProcessAll(NormalizeAll(new_keywords, config.norm))

process_keywords(config, metadata, new_keywords) ==
    ProcessAll(NormalizeAll((IF config.update_keywords THEN metadata.Keywords ELSE <<>>)
                               \o new_keywords,
                            config.norm))

(***************************************************************************)
(* FileProcessor.generate_metadata.  llm_calls counts the describe_content *)
(* calls; raised tells that the except branch was taken, which returns the *)
(* caller's dict with Status "retry".                                      *)
(***************************************************************************)
Generated(existing, text) == existing \o <<"<generated>">> \o text \o <<"</generated>">>

\* Lines 950-980: the caption, and whether composing it raises (None + str).
Caption(config, existing_caption, data, detailed_caption) ==
    IF ~config.no_caption /\ config.detailed_caption
    THEN (IF existing_caption # <<>> /\ config.update_caption
          THEN [raises |-> detailed_caption = <<>>,
                v |-> Generated(existing_caption, detailed_caption)]
          ELSE [raises |-> FALSE, v |-> detailed_caption])
    ELSE IF ~data.isdict THEN [raises |-> FALSE, v |-> <<>>]
    ELSE IF existing_caption = <<>> /\ ~config.no_caption
    THEN [raises |-> FALSE, v |-> data.Description]
    ELSE IF existing_caption # <<>> /\ config.update_caption
    THEN [raises |-> data.Description = <<>>,
          v |-> Generated(existing_caption, data.Description)]
    ELSE IF data.Description # <<>> /\ ~config.no_caption
    THEN [raises |-> FALSE, v |-> data.Description]
    ELSE [raises |-> FALSE, v |-> existing_caption]

\* Lines 989-993 giving every generated dict an Identifier of its own.
NewMetadataOwnIdentifier(metadata, caption, keywords, processed, llm_calls) ==
    [metadata |-> [SourceFile |-> metadata.SourceFile,
                   keys |-> {DESC, KW, ST, ID},
                   Identifier |-> metadata.Identifier + 1,
                   Status |-> IF keywords = <<>> THEN "retry" ELSE "success",
                   Description |-> caption.v,
                   Keywords |-> processed.v],
     raised |-> FALSE, events |-> <<>>, llm_calls |-> llm_calls]

\* Lines 982-1002, on the caption, the parsed keywords and their processing.
NewMetadata(metadata, caption, keywords, processed, llm_calls) ==
    IF caption.raises \/ processed.k = "raise"
    THEN [metadata |-> [metadata EXCEPT !.Status = "retry", !.keys = @ \cup {ST}],
          raised |-> TRUE, events |-> <<"parse_error">>, llm_calls |-> llm_calls]
    ELSE [metadata |-> [SourceFile |-> metadata.SourceFile,
                        keys |-> {DESC, KW, ST, ID},
                        Identifier |-> metadata.Identifier,
                        Status |-> IF keywords = <<>> THEN "retry" ELSE "success",
                        Description |-> caption.v,
                        Keywords |-> processed.v],
          raised |-> FALSE, events |-> <<>>, llm_calls |-> llm_calls]

GenerateFrom(config, metadata, data, detailed_caption) ==
    NewMetadata(metadata,
                Caption(config, metadata.Description, data, detailed_caption),
                data.Keywords,
                IF data.Keywords = <<>> THEN [k |-> "None", v |-> <<>>]
                ELSE process_keywords(config, metadata, data.Keywords),
                IF ~config.no_caption /\ config.detailed_caption THEN 2 ELSE 1)

generate_metadata(config, metadata, response) ==
    GenerateFrom(config, metadata, clean_json(response), response.caption)

(***************************************************************************)
(* FileProcessor.process_file on the reduced dict of one file.  env is     *)
(* what the surroundings answer during the call: whether the file still    *)
(* exists, whether the image can be loaded, the responses to the first and *)
(* the second generation, and whether set_tags returns.  The result tells  *)
(* how the call ended (decision), the Status each generate_metadata call   *)
(* returned (attempts), the number of describe_content calls made, the     *)
(* set_tags calls issued, the events                                       *)
(* sent to the callback, the dict the call ended with (final) and whether  *)
(* files_completed was incremented.                                        *)
(***************************************************************************)
Result(decision, attempts, llm_calls, calls, events, final, uuid_used, completed) ==
    [decision |-> decision, attempts |-> attempts, gen_calls |-> Len(attempts),
     llm_calls |-> llm_calls,
     calls |-> calls, events |-> events, final |-> final,
     uuid_used |-> uuid_used, completed |-> completed]

DryWrite(config, metadata, write_ok) ==
    IF config.dry_run THEN NoWrite ELSE write_metadata(config, metadata, write_ok)

\* Lines 852-920, on the result g of the last generation and the write's outcome.
Finish(c, g, w, attempts, llm_calls, events) ==
    IF g.metadata.Status # "success"
    THEN Result("failed", attempts, llm_calls, c.calls \o w.calls,
                c.events \o events \o <<"retry_failed">> \o w.events,
                [c.metadata EXCEPT !.Status = "failed", !.keys = @ \cup {ST}],
                c.uuid_used, FALSE)
    ELSE Result("success", attempts, llm_calls, c.calls \o w.calls,
                c.events \o events \o <<"image_data">> \o w.events
                    \o <<"status_success">>,
                g.metadata, c.uuid_used, TRUE)

\* process_file without the writes of lines 859 and 879.
WrittenNowhere(config, c, g, write_ok) == NoWrite

\* process_file without lines 853-861: what the last generation returned is
\* written whatever its Status.
WrittenAsGenerated(config, c, g, write_ok) == DryWrite(config, g.metadata, write_ok)

\* Lines 859 and 879: the write of the failed or of the generated dict.
Written(config, c, g, write_ok) ==
    IF g.metadata.Status # "success"
    THEN DryWrite(config,
                  [c.metadata EXCEPT !.Status = "failed", !.keys = @ \cup {ST}],
                  write_ok)
    ELSE DryWrite(config, g.metadata, write_ok)

\* process_file without the retry of lines 845-850.
RetryNever(config, env, c, g1, g2) ==
    Finish(c, g1, Written(config, c, g1, env.write_ok),
           <<g1.metadata.Status>>, g1.llm_calls, g1.events)

\* Lines 842-850 without the quick_fail test of line 845.
RetryAlways(config, env, c, g1, g2) ==
    IF g1.metadata.Status = "retry"
    THEN Finish(c, g2, Written(config, c, g2, env.write_ok),
                <<g1.metadata.Status, g2.metadata.Status>>,
                g1.llm_calls + g2.llm_calls, g1.events \o <<"retrying">> \o g2.events)
    ELSE Finish(c, g1, Written(config, c, g1, env.write_ok),
                <<g1.metadata.Status>>, g1.llm_calls, g1.events)

\* Lines 842-850, on the result g1 of the first generation.
Retry(config, env, c, g1, g2) ==
    IF ~config.quick_fail /\ g1.metadata.Status = "retry"
    THEN Finish(c, g2, Written(config, c, g2, env.write_ok),
                <<g1.metadata.Status, g2.metadata.Status>>,
                g1.llm_calls + g2.llm_calls, g1.events \o <<"retrying">> \o g2.events)
    ELSE Finish(c, g1, Written(config, c, g1, env.write_ok),
                <<g1.metadata.Status>>, g1.llm_calls, g1.events)

\* Lines 826-840, on the result c of check_uuid.
Checked(config, env, c) ==
    IF c.ret = "None"
    THEN Result("skip", <<>>, 0, c.calls, c.events, c.metadata, FALSE, FALSE)
    ELSE IF ~env.image_ok
    THEN Result("error", <<>>, 0, c.calls, c.events \o <<"error">>, c.metadata,
                c.uuid_used, FALSE)
    ELSE Retry(config, env, c,
               generate_metadata(config, c.metadata, env.r1),
               generate_metadata(config, c.metadata, env.r2))

process_file(config, metadata, uuid, env) ==
    IF ~env.exists
    THEN Result("missing", <<>>, 0, <<>>, <<"missing">>, metadata, FALSE, FALSE)
    ELSE Checked(config, env, check_uuid(config, metadata, uuid, env.write_ok))

(***************************************************************************)
(* FileProcessor.process_directory, lines 727-760: the reduction of one    *)
(* file's answer to the dict of the four canonical fields.  Keywords of    *)
(* all aliases are concatenated; of the other concepts the last value in   *)
(* the answer's order stays.                                               *)
(***************************************************************************)
\* __init__, lines 534-565: the alias names of each concept.  Line 552 has no
\* comma after "Composite:Caption", which joins it with the next name.
keyword_fields ==
    <<"Keywords", "IPTC:Keywords", "Composite:keywords", "Subject", "DC:Subject",
      "XMP:Subject", "XMP-dc:Subject">>

caption_fields ==
    <<"Description", "XMP:Description", "ImageDescription", "DC:Description",
      "EXIF:ImageDescription", "Composite:Description", "Caption", "IPTC:Caption",
      "Composite:CaptionIPTC:Caption-Abstract", "XMP-dc:Description",
      "PNG:Description">>

identifier_fields == <<"Identifier", "XMP:Identifier">>

status_fields == <<"Status", "XMP:Status">>

Last(pairs, empty) == IF pairs = <<>> THEN empty ELSE pairs[Len(pairs)][2]

\* list.extend(value), line 740: the entries of a list, the characters of a str.
Extended(pair, scalar) ==
    IF pair[1] \in scalar
    THEN [j \in DOMAIN pair[2][1] |-> <<pair[2][1][j]>>]
    ELSE pair[2]

Reduce(raw) ==
    LET keywords == flatten([i \in DOMAIN raw.keywords |->
                                Extended(raw.keywords[i], raw.scalar)])
        caption == Last(raw.captions, <<>>)
        identifier == Last(raw.identifiers, 0)
        status == Last(raw.statuses, None)
    IN  [SourceFile |-> raw.SourceFile,
         keys |-> (IF keywords # <<>> THEN {KW} ELSE {})
                  \cup (IF caption # <<>> THEN {DESC} ELSE {})
                  \cup (IF status # None THEN {ST} ELSE {})
                  \cup (IF identifier # 0 THEN {ID} ELSE {}),
         Identifier |-> identifier, Status |-> status,
         Description |-> caption, Keywords |-> keywords]

(***************************************************************************)
(* Bounds and the inputs the model is explored on.                         *)
(***************************************************************************)
\* The number of runs of main over the same directory tree.
MaxRuns == 2

Files == {"a.jpg", "b.jpg"}

Flags(config) ==
    [reprocess_all |-> config[1], reprocess_failed |-> config[2],
     reprocess_orphans |-> config[3], dry_run |-> config[4],
     quick_fail |-> config[5], skip_verify |-> config[6],
     update_keywords |-> config[7], no_caption |-> config[8],
     update_caption |-> config[9], detailed_caption |-> config[10],
     no_crawl |-> FALSE, norm |-> DefaultNormConfig]

\* Config.__init__, lines 220-240, as far as the model goes.
DefaultFlags ==
    Flags(<<FALSE, FALSE, TRUE, FALSE, FALSE, FALSE, FALSE, FALSE, FALSE, FALSE>>)

\* Every setting of the flags the state machine and the writes depend on, the
\* caption and keyword flags being as Config.__init__ sets them.
StatusConfigs ==
    {Flags(<<ra, rf, ro, dr, qf, FALSE, FALSE, FALSE, FALSE, FALSE>>) :
        ra \in BOOLEAN, rf \in BOOLEAN, ro \in BOOLEAN, dr \in BOOLEAN, qf \in BOOLEAN}

\* The settings without a reprocess flag.
PlainConfigs ==
    {c \in StatusConfigs : ~c.reprocess_all /\ ~c.reprocess_failed /\ c.reprocess_orphans}

NewRecord ==
    [Identifier |-> 0, Status |-> None, Description |-> <<>>, Keywords |-> <<>>,
     errors |-> 0]

\* The metadata a file may carry before the first run: every Status with and
\* without Identifier and Keywords, an untouched file, an orphan without
\* caption, and two files whose validation reports an error.
InitialRecords ==
    [Identifier : {0, 1}, Status : {None, "retry", "failed", "success"},
     Description : {<<"old">>}, Keywords : {<<>>, <<cat>>}, errors : {0}]
    \cup
    { NewRecord,
      [NewRecord EXCEPT !.Identifier = 1, !.Keywords = <<cat>>],
      [NewRecord EXCEPT !.errors = 1],
      [NewRecord EXCEPT !.Identifier = 1, !.Status = "success",
                        !.Keywords = <<cat>>, !.errors = 1] }

Disk(a, b) == [f \in Files |-> IF f = "a.jpg" THEN a ELSE b]

\* The directory trees (per directory, in os.walk's order, its listing), each
\* with the Configs and the files' metadata it is explored on: one file beside
\* an empty directory, one file listed by two directories, and two files in one
\* directory.
Scenarios ==
    {<<c, << <<>>, <<"a.jpg">> >>, Disk(a, NewRecord)>> :
        c \in StatusConfigs, a \in InitialRecords}
    \cup
    {<<c, << <<"a.jpg">>, <<"a.jpg">> >>, Disk(a, NewRecord)>> :
        c \in PlainConfigs,
        a \in {r \in InitialRecords : r.Identifier = 0 \/ r.Status = None}}
    \cup
    {<<c, << <<"a.jpg", "b.jpg">> >>, Disk(a, NewRecord)>> :
        c \in PlainConfigs,
        a \in {r \in InitialRecords : r.Identifier = 1 /\ r.Keywords # <<>>}}

\* What the endpoint may answer to one generation.
Responses ==
    { NoResponse,
      Response("object", <<Cats, cat>>, <<"new">>, <<"long">>),
      Response("object", <<>>, <<"new">>, <<"long">>),
      Response("object", <<BlueSky>>, <<>>, <<>>),
      Response("object", <<no>>, <<"new">>, <<"long">>),
      Response("object", <<cat, <<>>>>, <<"new">>, <<"long">>) }

Env(exists, image_ok, write_ok, r1, r2) ==
    [exists |-> exists, image_ok |-> image_ok, write_ok |-> write_ok,
     r1 |-> r1, r2 |-> r2]

\* The answers process_file can get on metadata, each with the result it leads
\* to: an answer the call does not ask for (a second response without a retry,
\* the outcome of a write it does not issue) is left at its default.
Outcome(config, metadata, uuid, env) ==
    [env |-> env, result |-> process_file(config, metadata, uuid, env)]

Quiet == Env(TRUE, TRUE, TRUE, NoResponse, NoResponse)

\* Every outcome with, where a write is issued, also the one of the failing write.
WithWriteFaults(config, metadata, uuid, outcomes) ==
    outcomes \cup
    {Outcome(config, metadata, uuid, [o.env EXCEPT !.write_ok = FALSE]) :
        o \in {q \in outcomes : q.result.calls # <<>>}}

\* Every outcome with, where there was a retry, each answer to the retry instead.
WithSecond(config, metadata, uuid, first) ==
    {o \in first : o.result.gen_calls # 2} \cup
    {Outcome(config, metadata, uuid, [o.env EXCEPT !.r2 = r]) :
        o \in {q \in first : q.result.gen_calls = 2}, r \in Responses}

EnvsOf(quiet) ==
    {[quiet EXCEPT !.exists = FALSE], [quiet EXCEPT !.image_ok = FALSE]}
    \cup {[quiet EXCEPT !.r1 = r] : r \in Responses}

Outcomes(config, metadata, uuid) ==
    WithWriteFaults(config, metadata, uuid,
        WithSecond(config, metadata, uuid,
            {Outcome(config, metadata, uuid, e) : e \in EnvsOf(Quiet)}))

(***************************************************************************)
(* The state.                                                              *)
(***************************************************************************)
VARIABLES
    config,              \* the Config of every run
    tree,                \* the directory tree under config.directory
    disk,                \* the metadata each file carries
    run,                 \* the number of the current run of main
    walk,                \* BackgroundIndexer.run: the next directory of os.walk
    total_files_found,   \* BackgroundIndexer.total_files_found
    indexing_complete,   \* BackgroundIndexer.indexing_complete
    metadata_queue,      \* FileProcessor.metadata_queue
    pc,                  \* where process_directory is: "loop", "get", "batch",
                         \* "poll" (line 766) or "done"
    metadata_list,       \* the rest of the current batch's metadata_list
    files_processed,     \* FileProcessor.files_processed
    files_completed,     \* FileProcessor.files_completed
    et_terminated,       \* self.et.terminate() has been called
    next_uuid,           \* the value the next uuid.uuid4() returns
    last,                \* the latest file handled: its dict, answers and result
    llm_calls_run,       \* describe_content calls of the current run
    changed_run,         \* a write of the current run changed a canonical field
    fault_run,           \* a read, a file, an image or a write failed in this run
    clean_before,        \* no such failure in any earlier run
    success_writes,      \* per file: stored generation results with Status success
    generated_run,       \* per file: passes of this run that called the generator
    indexer_alive,       \* the BackgroundIndexer thread has not died
    callback_ok,         \* the progress callback returns; FALSE: it raises
    signal,              \* what check_paused_or_stopped() returns now
    stopped,             \* the controller has signalled stop: signal stays TRUE
    waiting,             \* check_pause_stop: "no", "spin" (line 670) or "recheck" (674)
    site,                \* the call of check_pause_stop: "loop", "batch", "file"
    ended,               \* how process_directory ended: "drained", "stop", "raise"
    call,                \* a call of a function on its own: its arguments
    returned             \* and what it returned

vars == <<config, tree, disk, run, walk, total_files_found, indexing_complete,
          metadata_queue, pc, metadata_list, files_processed, files_completed,
          et_terminated, next_uuid, last, llm_calls_run, changed_run, fault_run,
          clean_before, success_writes, generated_run, indexer_alive,
          callback_ok, signal, stopped, waiting, site, ended, call, returned>>

crawler == <<walk, total_files_found, indexing_complete, indexer_alive>>
controller == <<signal, stopped>>
pause == <<waiting, site>>
apart == <<callback_ok, call, returned>>
history == <<last, llm_calls_run, changed_run, fault_run, clean_before,
             success_writes, generated_run>>

NoResult == Result("none", <<>>, 0, <<>>, <<>>, EmptyDict(""), FALSE, FALSE)

NoLast ==
    [file |-> "", metadata |-> EmptyDict(""), uuid |-> 0, before |-> NewRecord,
     env |-> Env(TRUE, TRUE, TRUE, NoResponse, NoResponse), result |-> NoResult]

FilesOf(t) == UNION {Range(t[d]) : d \in DOMAIN t}

Canonical(rec) == <<rec.Identifier, rec.Status, rec.Description, rec.Keywords>>

NoCall == [fn |-> "none"]
NoReturn == [k |-> "pending", v |-> <<>>]

\* main, lines 1057-1066: a FileProcessor and its BackgroundIndexer are made
\* for a Config, a tree on disk and a progress callback.
Begin(scenarios, callbacks, calls) ==
    /\ \E s \in scenarios : config = s[1] /\ tree = s[2] /\ disk = s[3]
    /\ callback_ok \in callbacks
    /\ call \in calls
    /\ indexer_alive = TRUE
    /\ signal = FALSE
    /\ stopped = FALSE
    /\ waiting = "no"
    /\ site = "none"
    /\ ended = "no"
    /\ returned = NoReturn
    /\ run = 1
    /\ walk = 1
    /\ total_files_found = 0
    /\ indexing_complete = FALSE
    /\ metadata_queue = <<>>
    /\ pc = "loop"
    /\ metadata_list = <<>>
    /\ files_processed = 0
    /\ files_completed = 0
    /\ et_terminated = FALSE
    /\ next_uuid = 2
    /\ last = NoLast
    /\ llm_calls_run = 0
    /\ changed_run = FALSE
    /\ fault_run = FALSE
    /\ clean_before = TRUE
    /\ success_writes = [f \in Files |-> 0]
    /\ generated_run = [f \in Files |-> 0]

Init == Begin(Scenarios, {TRUE}, {NoCall})

\* An empty tree: nothing is found and nothing handled.
Idle == <<CHOOSE c \in PlainConfigs : TRUE, << <<>> >>, Disk(NewRecord, NewRecord)>>

(***************************************************************************)
(* BackgroundIndexer.                                                      *)
(***************************************************************************)
\* _index_directory without line 499: the batch is put on the queue and its
\* files are not counted.
IndexUncounted ==
    /\ indexer_alive
    /\ ~indexing_complete
    /\ walk <= Len(tree)
    /\ walk = 1 \/ ~config.no_crawl
    /\ metadata_queue' = IF tree[walk] # <<>>
                         THEN Append(metadata_queue, <<walk, tree[walk]>>)
                         ELSE metadata_queue
    /\ walk' = walk + 1
    /\ UNCHANGED <<config, tree, disk, run, total_files_found, indexing_complete,
                   pc, metadata_list, files_processed, files_completed,
                   et_terminated, next_uuid, history, indexer_alive, controller,
                   pause, ended, apart>>

\* _index_directory on the next directory of the walk: a directory with
\* eligible files is counted and put on the queue as one batch.
IndexDirectory ==
    /\ indexer_alive
    /\ ~indexing_complete
    /\ walk <= Len(tree)
    /\ walk = 1 \/ ~config.no_crawl
    /\ LET files == tree[walk]
       IN  IF files # <<>>
           THEN /\ total_files_found' = total_files_found + Len(files)
                /\ metadata_queue' = Append(metadata_queue, <<walk, files>>)
           ELSE UNCHANGED <<total_files_found, metadata_queue>>
    /\ walk' = walk + 1
    /\ UNCHANGED <<config, tree, disk, run, indexing_complete, pc, metadata_list,
                   files_processed, files_completed, et_terminated, next_uuid,
                   history, indexer_alive, controller, pause, ended, apart>>

\* run, line 487: the walk is exhausted.
IndexingDone ==
    /\ indexer_alive
    /\ ~indexing_complete
    /\ walk > Len(tree) \/ (config.no_crawl /\ walk > 1)
    /\ indexing_complete' = TRUE
    /\ UNCHANGED <<config, tree, disk, run, walk, total_files_found, metadata_queue,
                   pc, metadata_list, files_processed, files_completed,
                   et_terminated, next_uuid, history, indexer_alive, controller,
                   pause, ended, apart>>

(***************************************************************************)
(* FileProcessor.process_directory.                                        *)
(***************************************************************************)
\* Lines 704-707: a batch is taken from the queue and its files' metadata read
\* in one get_tags call; _get_metadata_batch returns [] when the call raises.
Dequeue ==
    /\ pc \in {"loop", "get"}
    /\ pc = "loop" => ~signal
    /\ waiting = "no"
    /\ callback_ok
    /\ metadata_queue # <<>>
    /\ LET files == Head(metadata_queue)[2]
       IN  \E read_ok \in BOOLEAN :
              /\ metadata_list' =
                    IF read_ok
                    THEN [i \in DOMAIN files |-> get_tags(files[i], disk[files[i]], config)]
                    ELSE <<>>
              /\ fault_run' = (fault_run \/ ~read_ok)
    /\ metadata_queue' = Tail(metadata_queue)
    /\ pc' = "batch"
    /\ UNCHANGED <<config, tree, disk, run, crawler, files_processed,
                   files_completed, et_terminated, next_uuid, last, llm_calls_run,
                   changed_run, clean_before, success_writes, generated_run,
                   controller, pause, ended, apart>>

\* The effect of process_file's set_tags calls on the file.
Stored(rec, result, env) ==
    IF result.calls # <<>> /\ env.write_ok THEN set_tags(rec, result.calls[1]) ELSE rec

Faulty(result, env) ==
    \/ result.decision \in {"missing", "error"}
    \/ result.calls # <<>> /\ ~env.write_ok

\* Lines 709-725 passing every file on to process_file.
Unverified(raw) == FALSE

\* Lines 709-719: the dict carries ExifTool:Validate and its error count is
\* above 0.
Invalid(raw) == raw.Validate # <<>> /\ raw.Validate[1] > 0

\* Lines 709-767 for the next file of the batch: the file is left out when its
\* validation reports errors (continue: line 766 is not reached), and otherwise
\* reduced and handed to process_file, which ends with the check_pause_stop of
\* line 919 when it completed.  The check of line 766 precedes the next file.
ProcessNext ==
    /\ pc \in {"batch", "poll"}
    /\ pc = "poll" => ~signal
    /\ waiting = "no"
    /\ metadata_list # <<>>
    /\ LET raw == Head(metadata_list)
           file == raw.SourceFile
           metadata == Reduce(raw)
       IN  IF Invalid(raw)
           THEN /\ last' = [NoLast EXCEPT !.file = file, !.metadata = metadata,
                                          !.before = disk[file],
                                          !.result.decision = "invalid",
                                          !.result.events = <<"invalid">>,
                                          !.result.final = metadata]
                /\ pc' = "batch"
                /\ UNCHANGED <<disk, files_completed, next_uuid, llm_calls_run,
                               changed_run, fault_run, success_writes,
                               generated_run, pause>>
           ELSE \E o \in Outcomes(config, metadata, next_uuid) :
                  LET env == o.env
                      result == o.result
                      stored == Stored(disk[file], result, env)
                  IN  /\ last' = [file |-> file, metadata |-> metadata,
                                  uuid |-> next_uuid, before |-> disk[file],
                                  env |-> env, result |-> result]
                      /\ disk' = [disk EXCEPT ![file] = stored]
                      /\ files_completed' =
                            files_completed + (IF result.completed THEN 1 ELSE 0)
                      /\ next_uuid' = next_uuid + (IF result.uuid_used THEN 1 ELSE 0)
                      /\ llm_calls_run' = llm_calls_run + result.llm_calls
                      /\ changed_run' =
                            (changed_run \/ Canonical(stored) # Canonical(disk[file]))
                      /\ fault_run' = (fault_run \/ Faulty(result, env))
                      /\ success_writes' =
                            [success_writes EXCEPT ![file] =
                                @ + (IF /\ result.decision = "success"
                                        /\ result.calls # <<>>
                                        /\ env.write_ok
                                     THEN 1 ELSE 0)]
                      /\ generated_run' =
                            [generated_run EXCEPT ![file] =
                                @ + (IF result.gen_calls > 0 THEN 1 ELSE 0)]
                      /\ pc' = "poll"
                      /\ waiting' = IF result.completed /\ signal THEN "spin" ELSE "no"
                      /\ site' = IF result.completed /\ signal THEN "file" ELSE site
    /\ files_processed' = files_processed + 1
    /\ metadata_list' = Tail(metadata_list)
    /\ UNCHANGED <<config, tree, run, crawler, metadata_queue, et_terminated,
                   clean_before, controller, ended, apart>>

\* Line 769 with an update_progress that keeps the files remaining in the
\* indexer's counter.
EndBatchConsumes ==
    /\ pc \in {"batch", "poll"}
    /\ pc = "poll" => ~signal
    /\ waiting = "no"
    /\ metadata_list = <<>>
    /\ pc' = "loop"
    /\ total_files_found' = total_files_found - files_processed
    /\ UNCHANGED <<config, tree, disk, run, walk, indexing_complete, indexer_alive,
                   metadata_queue, metadata_list, files_processed,
                   files_completed, et_terminated, next_uuid, history,
                   controller, pause, ended, apart>>

\* Line 769: the batch is done; update_progress reports the files remaining.
EndBatch ==
    /\ pc \in {"batch", "poll"}
    /\ pc = "poll" => ~signal
    /\ waiting = "no"
    /\ metadata_list = <<>>
    /\ pc' = "loop"
    /\ UNCHANGED <<config, tree, disk, run, crawler, metadata_queue, metadata_list,
                   files_processed, files_completed, et_terminated, next_uuid,
                   history, controller, pause, ended, apart>>

\* The loop ending without the finally clause of lines 773-779.
ExitUnterminated ==
    /\ pc = "loop"
    /\ waiting = "no"
    /\ indexing_complete
    /\ metadata_queue = <<>>
    /\ pc' = "done"
    /\ ended' = "drained"
    /\ UNCHANGED <<config, tree, disk, run, crawler, metadata_queue, metadata_list,
                   files_processed, files_completed, et_terminated, next_uuid,
                   history, controller, pause, apart>>

\* Lines 699 and 773-779: the loop ends once the indexer is done and the queue
\* empty, and the tool's process is terminated.
Exit ==
    /\ pc = "loop"
    /\ waiting = "no"
    /\ indexing_complete
    /\ metadata_queue = <<>>
    /\ pc' = "done"
    /\ et_terminated' = TRUE
    /\ ended' = "drained"
    /\ UNCHANGED <<config, tree, disk, run, crawler, metadata_queue, metadata_list,
                   files_processed, files_completed, next_uuid, history,
                   controller, pause, apart>>

\* Line 704: get(timeout=1) found the queue empty; queue.Empty is caught and
\* the loop goes on.
GetTimeout ==
    /\ pc = "get"
    /\ metadata_queue = <<>>
    /\ pc' = "loop"
    /\ UNCHANGED <<config, tree, disk, run, crawler, metadata_queue, metadata_list,
                   files_processed, files_completed, et_terminated, next_uuid,
                   history, controller, pause, ended, apart>>

\* Lines 704-705 with a callback that raises: the batch is taken from the
\* queue, the exception is no queue.Empty and leaves the loop; finally
\* terminates the tool.
CallbackRaises ==
    /\ pc \in {"loop", "get"}
    /\ pc = "loop" => ~signal
    /\ waiting = "no"
    /\ ~callback_ok
    /\ metadata_queue # <<>>
    /\ metadata_queue' = Tail(metadata_queue)
    /\ pc' = "done"
    /\ et_terminated' = TRUE
    /\ ended' = "raise"
    /\ UNCHANGED <<config, tree, disk, run, crawler, metadata_list,
                   files_processed, files_completed, next_uuid, history,
                   controller, pause, apart>>

(***************************************************************************)
(* check_pause_stop, called at lines 700, 766 and 919.  A call that finds   *)
(* the predicate false is part of the step that follows it.                *)
(***************************************************************************)
\* Line 669 at line 700 or 766: the predicate is true.
ObservePause ==
    /\ waiting = "no"
    /\ signal
    /\ \/ pc = "poll"
       \/ pc = "loop" /\ ~(indexing_complete /\ metadata_queue = <<>>)
    /\ waiting' = "spin"
    /\ site' = IF pc = "loop" THEN "loop" ELSE "batch"
    /\ UNCHANGED <<config, tree, disk, run, crawler, metadata_queue, pc,
                   metadata_list, files_processed, files_completed,
                   et_terminated, next_uuid, history, controller, ended, apart>>

\* Lines 670-671: the while loop sees the predicate false.
LeaveSpin ==
    /\ waiting = "spin"
    /\ ~signal
    /\ waiting' = "recheck"
    /\ UNCHANGED <<config, tree, disk, run, crawler, metadata_queue, pc,
                   metadata_list, files_processed, files_completed,
                   et_terminated, next_uuid, history, controller, site, ended,
                   apart>>

\* Lines 674-677 and the caller: True makes process_directory return (lines
\* 701, 767) and finally terminate the tool; process_file (line 920) returns
\* either way.
Recheck ==
    /\ waiting = "recheck"
    /\ waiting' = "no"
    /\ site' = "none"
    /\ IF site = "file"
       THEN UNCHANGED <<pc, et_terminated, ended>>
       ELSE IF signal
            THEN /\ pc' = "done"
                 /\ et_terminated' = TRUE
                 /\ ended' = "stop"
            ELSE /\ pc' = (IF site = "loop" THEN "get" ELSE "batch")
                 /\ UNCHANGED <<et_terminated, ended>>
    /\ UNCHANGED <<config, tree, disk, run, crawler, metadata_queue,
                   metadata_list, files_processed, files_completed, next_uuid,
                   history, controller, apart>>

(***************************************************************************)
(* The caller of main behind check_paused_or_stopped.                       *)
(***************************************************************************)
Pause ==
    /\ ~signal
    /\ ~stopped
    /\ pc # "done"
    /\ signal' = TRUE
    /\ UNCHANGED <<config, tree, disk, run, crawler, metadata_queue, pc,
                   metadata_list, files_processed, files_completed,
                   et_terminated, next_uuid, history, stopped, pause, ended,
                   apart>>

Resume ==
    /\ signal
    /\ ~stopped
    /\ signal' = FALSE
    /\ UNCHANGED <<config, tree, disk, run, crawler, metadata_queue, pc,
                   metadata_list, files_processed, files_completed,
                   et_terminated, next_uuid, history, stopped, pause, ended,
                   apart>>

\* Stop: the predicate is true from now on.
Stop ==
    /\ ~stopped
    /\ pc # "done"
    /\ signal' = TRUE
    /\ stopped' = TRUE
    /\ UNCHANGED <<config, tree, disk, run, crawler, metadata_queue, pc,
                   metadata_list, files_processed, files_completed,
                   et_terminated, next_uuid, history, pause, ended, apart>>

\* _index_directory, line 492: os.listdir raises; nothing in run catches it
\* and the thread ends before line 487.
ListingFails ==
    /\ indexer_alive
    /\ ~indexing_complete
    /\ walk <= Len(tree)
    /\ walk = 1 \/ ~config.no_crawl
    /\ indexer_alive' = FALSE
    /\ UNCHANGED <<config, tree, disk, run, walk, total_files_found,
                   indexing_complete, metadata_queue, pc, metadata_list,
                   files_processed, files_completed, et_terminated, next_uuid,
                   history, controller, pause, ended, apart>>

(***************************************************************************)
(* main is run again over the same tree with the same Config: a new        *)
(* FileProcessor and a new BackgroundIndexer.                              *)
(***************************************************************************)
NewRun ==
    /\ pc = "done"
    /\ indexing_complete \/ ~indexer_alive
    /\ run < MaxRuns
    /\ run' = run + 1
    /\ walk' = 1
    /\ total_files_found' = 0
    /\ indexing_complete' = FALSE
    /\ pc' = "loop"
    /\ files_processed' = 0
    /\ files_completed' = 0
    /\ et_terminated' = FALSE
    /\ last' = NoLast
    /\ llm_calls_run' = 0
    /\ changed_run' = FALSE
    /\ fault_run' = FALSE
    /\ clean_before' = (clean_before /\ ~fault_run)
    /\ generated_run' = [f \in Files |-> 0]
    /\ indexer_alive' = TRUE
    /\ metadata_queue' = <<>>
    /\ metadata_list' = <<>>
    /\ ended' = "no"
    /\ UNCHANGED <<config, tree, disk, next_uuid, success_writes, controller,
                   pause, apart>>

Next ==
    \/ IndexDirectory
    \/ IndexingDone
    \/ Dequeue
    \/ ProcessNext
    \/ EndBatch
    \/ Exit
    \/ NewRun

Spec == Init /\ [][Next]_vars

(***************************************************************************)
(* One run with the caller pausing, resuming and stopping through          *)
(* check_paused_or_stopped, with a progress callback that works or raises, *)
(* and with directory listings that may fail: two files in one directory   *)
(* and a third listing in a second one.                                    *)
(***************************************************************************)
ControlConfigs == {c \in PlainConfigs : ~c.dry_run /\ c.quick_fail}

ControlRecords ==
    { NewRecord,
      [NewRecord EXCEPT !.Identifier = 1, !.Status = "success",
                        !.Description = <<"old">>, !.Keywords = <<cat>>] }

ControlScenarios ==
    {<<c, << <<"a.jpg", "b.jpg">>, <<"a.jpg">> >>, Disk(a, NewRecord)>> :
        c \in ControlConfigs, a \in ControlRecords}

InitControl == Begin(ControlScenarios, BOOLEAN, {NoCall})

\* The steps of process_directory.
Orchestrator ==
    \/ Dequeue
    \/ CallbackRaises
    \/ GetTimeout
    \/ ProcessNext
    \/ EndBatch
    \/ Exit
    \/ ObservePause
    \/ LeaveSpin
    \/ Recheck

NextControl ==
    \/ IndexDirectory
    \/ IndexingDone
    \/ ListingFails
    \/ Orchestrator
    \/ Pause
    \/ Resume
    \/ Stop

SpecControl == InitControl /\ [][NextControl]_vars

(***************************************************************************)
(* The body of process_directory's for loop on one file's answer from the  *)
(* tool: the reduction of lines 727-760 and process_file on its result,    *)
(* under every setting of the caption and keyword flags, on answers that   *)
(* give a concept under one alias or under two, in either order.           *)
(***************************************************************************)
FileConfigs ==
    {Flags(<<FALSE, FALSE, TRUE, dr, qf, FALSE, uk, nc, uc, dc>>) :
        dr \in BOOLEAN, qf \in BOOLEAN, uk \in BOOLEAN, nc \in BOOLEAN,
        uc \in BOOLEAN, dc \in BOOLEAN}

FileRecords ==
    { NewRecord,
      [NewRecord EXCEPT !.Description = <<"old">>, !.Keywords = <<Cats, BlueSky>>],
      [NewRecord EXCEPT !.Identifier = 1, !.Status = "retry",
                        !.Description = <<"old">>, !.Keywords = <<Cats>>],
      [NewRecord EXCEPT !.Identifier = 1, !.Keywords = <<cat>>] }

\* The answer with the keywords under IPTC:Keywords and XMP:Subject and two
\* descriptions, XMP:Description first or last.
TwoAliases(raw, xmp_first) ==
    [raw EXCEPT
        !.keywords = @ \o << <<"XMP:Subject", @[1][2]>> >>,
        !.captions = IF xmp_first
                     THEN @ \o << <<"EXIF:ImageDescription", <<"other">>>> >>
                     ELSE << <<"EXIF:ImageDescription", <<"other">>>> >> \o @]

\* The answer whose only keyword comes as a string instead of a list of one.
OneString(raw) == [raw EXCEPT !.scalar = {raw.keywords[1][1]}]

RawAnswers ==
    {get_tags("a.jpg", rec, DefaultFlags) : rec \in FileRecords}
    \cup
    {OneString(get_tags("a.jpg", rec, DefaultFlags)) :
        rec \in {r \in FileRecords : Len(r.Keywords) = 1}}
    \cup
    {TwoAliases(get_tags("a.jpg", rec, DefaultFlags), x) :
        rec \in {r \in FileRecords : r.Keywords # <<>> /\ r.Description # <<>>},
        x \in BOOLEAN}

FileCalls ==
    UNION {{[fn |-> "process_file", config |-> c, raw |-> raw, uuid |-> 2,
             env |-> o.env] : o \in Outcomes(c, Reduce(raw), 2)} :
           c \in FileConfigs, raw \in RawAnswers}

InitFile == Begin({Idle}, {TRUE}, FileCalls)

\* Lines 727-764 on the answer for one file.
ReduceAndProcess ==
    /\ call.fn = "process_file"
    /\ returned = NoReturn
    /\ returned' = [metadata |-> Reduce(call.raw),
                    result |-> process_file(call.config, Reduce(call.raw),
                                            call.uuid, call.env)]
    /\ UNCHANGED <<config, tree, disk, run, crawler, metadata_queue, pc,
                   metadata_list, files_processed, files_completed,
                   et_terminated, next_uuid, history, controller, pause, ended,
                   callback_ok, call>>

NextFile == ReduceAndProcess

SpecFile == InitFile /\ [][NextFile]_vars

(***************************************************************************)
(* process_keywords on its own, on keyword lists of up to MaxKeywords      *)
(* entries with and without normalization and update_keywords.             *)
(***************************************************************************)
MaxKeywords == 2

CatSpaced == <<" ","C","a","t"," ">>
blue_sky == <<"b","l","u","e"," ","s","k","y">>
Blue_Sky == <<"B","l","u","e"," ","S","k","y">>

RawKeywords == {Cats, cat, CatSpaced, BlueSky, blue_sky, Blue_Sky, no, <<>>}

KeywordLists == UNION {[1..n -> RawKeywords] : n \in 0..MaxKeywords}

NormConfigs == {DefaultNormConfig, [DefaultNormConfig EXCEPT !.normalize_keywords = FALSE]}

KeywordCalls ==
    {[fn |-> "process_keywords",
      config |-> [update_keywords |-> u, norm |-> n],
      metadata |-> [EmptyDict("a.jpg") EXCEPT !.Keywords = e, !.keys = {KW}],
      new_keywords |-> l] :
        u \in BOOLEAN, n \in NormConfigs, e \in {<<>>, <<Cats>>}, l \in KeywordLists}

InitKeywords == Begin({Idle}, {TRUE}, KeywordCalls)

\* Lines 1028-1055 applied to the arguments of the call.
CallProcessKeywords ==
    /\ call.fn = "process_keywords"
    /\ returned = NoReturn
    /\ returned' = process_keywords(call.config, call.metadata, call.new_keywords)
    /\ UNCHANGED <<config, tree, disk, run, crawler, metadata_queue, pc,
                   metadata_list, files_processed, files_completed,
                   et_terminated, next_uuid, history, controller, pause, ended,
                   callback_ok, call>>

NextKeywords == CallProcessKeywords

SpecKeywords == InitKeywords /\ [][NextKeywords]_vars

(***************************************************************************)
(* normalize_keyword on its own: a call is drawn from the keywords and     *)
(* the configurations below and the function is applied to it.             *)
(***************************************************************************)
MaxWords == 2

\* The keywords of the calls: Cats, BlueSky, blue sky, no, and the texts
\* "", " ", "!", "cats", "x", "café", "123cat", "well-known", "-cat",
\* "big red dog", "big red fat dog", "one-two three", "cats and dogs",
\* "cats or dogs", "rock and roll", "cats-and-dogs", "cats and-dogs",
\* "a and dogs", "no and dogs", "123 and dogs", "cats and no",
\* "Cats  And Dogs".
NormalizeKeywords ==
    { Cats,
      BlueSky,
      blue_sky,
      no,
      <<>>,
      <<" ">>,
      <<"!">>,
      <<"c","a","t","s">>,
      <<"x">>,
      <<"c","a","f","é">>,
      <<"1","2","3","c","a","t">>,
      <<"w","e","l","l","-","k","n","o","w","n">>,
      <<"-","c","a","t">>,
      <<"b","i","g"," ","r","e","d"," ","d","o","g">>,
      <<"b","i","g"," ","r","e","d"," ","f","a","t"," ","d","o","g">>,
      <<"o","n","e","-","t","w","o"," ","t","h","r","e","e">>,
      <<"c","a","t","s"," ","a","n","d"," ","d","o","g","s">>,
      <<"c","a","t","s"," ","o","r"," ","d","o","g","s">>,
      <<"r","o","c","k"," ","a","n","d"," ","r","o","l","l">>,
      <<"c","a","t","s","-","a","n","d","-","d","o","g","s">>,
      <<"c","a","t","s"," ","a","n","d","-","d","o","g","s">>,
      <<"a"," ","a","n","d"," ","d","o","g","s">>,
      <<"n","o"," ","a","n","d"," ","d","o","g","s">>,
      <<"1","2","3"," ","a","n","d"," ","d","o","g","s">>,
      <<"c","a","t","s"," ","a","n","d"," ","n","o">>,
      <<"C","a","t","s"," "," ","A","n","d"," ","D","o","g","s">> }

\* Every setting of the switches normalize_keyword reads, and the one
\* configuration that turns normalization off.
SwitchConfigs ==
    {[ normalize_keywords |-> TRUE, depluralize_keywords |-> dp,
       limit_word_count |-> lw, max_words_per_keyword |-> n,
       split_and_entries |-> sa, ban_prompt_words |-> bp,
       no_digits_start |-> nd, min_word_length |-> ml, latin_only |-> lo ] :
        dp, lw, sa, bp, nd, ml, lo \in BOOLEAN, n \in 1..MaxWords}
        \cup {[DefaultNormConfig EXCEPT !.normalize_keywords = FALSE]}

NormalizeCalls ==
    {[fn |-> "normalize_keyword", keyword |-> k, config |-> c] :
        k \in NormalizeKeywords, c \in SwitchConfigs}

InitNormalize == Begin({Idle}, {TRUE}, NormalizeCalls)

\* Lines 25-147 applied to the arguments of the call.
CallNormalizeKeyword ==
    /\ call.fn = "normalize_keyword"
    /\ returned = NoReturn
    /\ returned' = normalize_keyword(call.keyword, banned_words, call.config)
    /\ UNCHANGED <<config, tree, disk, run, crawler, metadata_queue, pc,
                   metadata_list, files_processed, files_completed,
                   et_terminated, next_uuid, history, controller, pause, ended,
                   callback_ok, call>>

NextNormalize == CallNormalizeKeyword

SpecNormalize == InitNormalize /\ [][NextNormalize]_vars

(***************************************************************************)
(* clean_json on its own.  json.loads, repair_json (rj) and first_json are *)
(* library code: what each of the three parsing attempts of lines 188-212  *)
(* gives on a text is an answer of the surroundings, either an exception   *)
(* or a JSON value, of which the model keeps the type and whether it is an *)
(* object with a non-empty Keywords entry.  The text meant is the one the  *)
(* attempts work on, which is the content of the ```json fence when the    *)
(* answer has one (lines 181-185).                                         *)
(***************************************************************************)
Parsed(type, keywords) == [type |-> type, Keywords |-> keywords]

Raised == Parsed("raise", FALSE)
NoneValue == Parsed("None", FALSE)

\* What one parsing attempt may give.
Attempts ==
    {Raised, Parsed("dict", TRUE), Parsed("dict", FALSE), Parsed("list", FALSE),
     Parsed("str", FALSE)}

\* What describe_content may hand to clean_json: None, a dict, or a text with
\* the results of the three attempts on it.
JsonInputs ==
    {[type |-> "None"]}
    \cup {[type |-> "dict", value |-> v] : v \in {Parsed("dict", TRUE), Parsed("dict", FALSE)}}
    \cup {[type |-> "str", loads |-> a, first |-> b, wrapped |-> c] :
            a \in Attempts, b \in Attempts, c \in Attempts}

\* Lines 167-216.  result.get of line 209 raises on a value that is no object.
clean_json_text(data) ==
    IF data.type = "None" THEN NoneValue
    ELSE IF data.type = "dict" THEN data.value
    ELSE IF data.loads # Raised THEN data.loads
    ELSE IF data.first # Raised THEN data.first
    ELSE IF data.wrapped.type = "dict" /\ data.wrapped.Keywords THEN data.wrapped
    ELSE NoneValue

JsonCalls == {[fn |-> "clean_json", data |-> d] : d \in JsonInputs}

InitJson == Begin({Idle}, {TRUE}, JsonCalls)

CallCleanJson ==
    /\ call.fn = "clean_json"
    /\ returned = NoReturn
    /\ returned' = clean_json_text(call.data)
    /\ UNCHANGED <<config, tree, disk, run, crawler, metadata_queue, pc,
                   metadata_list, files_processed, files_completed,
                   et_terminated, next_uuid, history, controller, pause, ended,
                   callback_ok, call>>

NextJson == CallCleanJson

SpecJson == InitJson /\ [][NextJson]_vars

(***************************************************************************)
(* The properties.  last describes the latest pass over a file: the dict   *)
(* process_file was given, the answers it got and what it did.             *)
(***************************************************************************)
\* process_file has been called on last.file.
Handled == last.result.decision \notin {"none", "invalid"}

\* check_uuid has been called on last.metadata.
Decided == Handled /\ last.result.decision # "missing"

NoReprocess == ~config.reprocess_all /\ ~config.reprocess_failed

Orphan(metadata) ==
    metadata.Identifier # 0 /\ metadata.Status = None /\ metadata.Keywords # <<>>

\* What check_uuid returned in the latest pass.
LastCheck == check_uuid(config, last.metadata, last.uuid, last.env.write_ok)

\* C1 as stated: with reprocess_all and reprocess_failed off, a run after a
\* complete run makes no describe_content call and no write that changes a
\* file's Identifier, Status, Description or Keywords.
C1_AsStated ==
    (run >= 2 /\ NoReprocess) => (llm_calls_run = 0 /\ ~changed_run)

\* C1, amended: the same, when dry_run is off and no read, file access, image
\* preparation or write failed in the earlier runs.
C1_SecondRunIdle ==
    (run >= 2 /\ NoReprocess /\ ~config.dry_run /\ clean_before)
        => (llm_calls_run = 0 /\ ~changed_run)

C1_Witness ==
    /\ run = 2 /\ pc = "done" /\ NoReprocess /\ ~config.dry_run /\ clean_before
    /\ last.result.decision = "skip"
    /\ success_writes[last.file] = 1

\* C2: with no reprocess flag set, over all runs at most one generated result
\* with Status success is stored in a file.
C2_AtMostOneSuccess ==
    NoReprocess => \A f \in Files : success_writes[f] <= 1

C2_Witness ==
    /\ run = 2 /\ NoReprocess /\ ~clean_before
    /\ last.result.decision = "success"
    /\ success_writes[last.file] = 1
    /\ disk[last.file].Status = "success"

\* C3: a dict with an Identifier and Status success is skipped by check_uuid
\* when reprocess_all is off, without generator call or write; when
\* reprocess_all is on check_uuid returns it with Status cleared.
C3_SuccessSkipped ==
    (Decided /\ last.metadata.Identifier # 0 /\ last.metadata.Status = "success")
        => IF ~config.reprocess_all
           THEN /\ last.result.decision = "skip"
                /\ last.result.gen_calls = 0
                /\ last.result.llm_calls = 0
                /\ last.result.calls = <<>>
                /\ disk[last.file] = last.before
           ELSE /\ last.result.decision # "skip"
                /\ LastCheck.ret = "metadata"
                /\ LastCheck.metadata.Status = None
                /\ LastCheck.metadata.Identifier = last.metadata.Identifier

C3_Witness ==
    /\ Decided /\ last.metadata.Identifier # 0 /\ last.metadata.Status = "success"
    /\ config.reprocess_all
    /\ last.result.decision = "success"

\* The Status of the first and of the last generate_metadata result of the pass.
FirstAttempt == last.result.attempts[1]
LastAttempt == last.result.attempts[Len(last.result.attempts)]

\* C4 as stated: a first generation without Keywords (Status retry) is followed
\* by exactly one more generate_metadata call if quick_fail is off and by none
\* if it is on; when the last one has none either, a write with Status failed
\* is issued.
C4_AsStated ==
    (Handled /\ last.result.attempts # <<>>)
        => /\ FirstAttempt = "retry"
                => last.result.gen_calls = IF config.quick_fail THEN 1 ELSE 2
           /\ LastAttempt = "retry"
                => /\ last.result.calls # <<>>
                   /\ last.result.calls[Len(last.result.calls)].Status = "failed"

\* C4, amended: the same, the write with Status failed being issued when
\* dry_run is off and no write at all when it is on.
C4_RetryOnce ==
    (Handled /\ last.result.attempts # <<>>)
        => /\ FirstAttempt = "retry"
                => last.result.gen_calls = IF config.quick_fail THEN 1 ELSE 2
           /\ LastAttempt = "retry"
                => /\ last.result.decision = "failed"
                   /\ last.result.final.Status = "failed"
                   /\ IF config.dry_run THEN last.result.calls = <<>>
                      ELSE /\ Len(last.result.calls) = 1
                           /\ last.result.calls[1].Status = "failed"

C4_Witness ==
    /\ Handled /\ ~config.dry_run /\ ~config.quick_fail
    /\ last.result.attempts = <<"retry", "retry">>
    /\ last.env.write_ok
    /\ disk[last.file].Status = "failed"

\* C5: with dry_run on no pass issues a set_tags call, and no file changes.
C5_DryRunNoWrites ==
    (config.dry_run /\ Handled)
        => /\ last.result.calls = <<>>
           /\ disk[last.file] = last.before
           /\ ~changed_run

C5_Witness ==
    /\ config.dry_run /\ Decided
    /\ Orphan(last.metadata) /\ config.reprocess_orphans /\ ~config.reprocess_all
    /\ last.result.events = <<"orphan_status_added">>

SansIdentifier(metadata) == [metadata EXCEPT !.Identifier = 0]

\* The pass of the other mode (dry run for normal, normal for dry run) on the
\* same dict with the same answers, its writes succeeding.
Twin ==
    process_file([config EXCEPT !.dry_run = ~config.dry_run],
                 last.metadata, last.uuid, last.env)

SameEnding(a, b) ==
    /\ a.decision = b.decision
    /\ SansIdentifier(a.final) = SansIdentifier(b.final)
    /\ a.events = b.events
    /\ a.attempts = b.attempts

C7_AsStated ==
    (last.result.decision # "none" /\ last.metadata.Identifier = 0)
        => /\ generated_run[last.file] = 1
           /\ disk[last.file].Identifier = last.uuid

\* C7, amended: in a run with dry_run, reprocess_all and reprocess_failed off
\* and without failure, a pass over a valid file without Identifier assigns a
\* new one, generates once and stores the outcome (Status success or failed)
\* with that Identifier; a later pass of the run over the file skips it.
C7_NewFileOnce ==
    (~config.dry_run /\ NoReprocess /\ ~fault_run /\ Handled)
        => /\ last.metadata.Identifier = 0
                => /\ last.result.uuid_used
                   /\ last.result.gen_calls >= 1
                   /\ generated_run[last.file] = 1
                   /\ Len(last.result.calls) = 1
                   /\ disk[last.file].Identifier = last.uuid
                   /\ disk[last.file].Status \in {"success", "failed"}
           /\ (generated_run[last.file] = 1 /\ last.result.gen_calls = 0)
                => /\ last.result.decision = "skip"
                   /\ last.result.calls = <<>>
                   /\ last.metadata.Identifier # 0
           /\ generated_run[last.file] <= 1

C7_Witness ==
    /\ run = 1 /\ ~config.dry_run /\ ~fault_run
    /\ Handled /\ last.result.decision = "skip"
    /\ generated_run[last.file] = 1
    /\ last.metadata.Identifier >= 2
    /\ files_processed = 2

\* C8: every set_tags call for a file read with an Identifier carries that
\* Identifier, and the file keeps it.
C8_IdentifierKept ==
    (Handled /\ last.metadata.Identifier # 0)
        => /\ \A i \in DOMAIN last.result.calls :
                /\ ID \in last.result.calls[i].keys
                /\ last.result.calls[i].Identifier = last.metadata.Identifier
           /\ disk[last.file].Identifier = last.metadata.Identifier
           /\ last.result.final.Identifier = last.metadata.Identifier

C8_Witness ==
    /\ Handled /\ last.metadata.Identifier # 0
    /\ config.reprocess_all /\ ~config.dry_run
    /\ last.result.decision = "failed"
    /\ last.env.write_ok
    /\ last.before.Status = "success"
    /\ disk[last.file].Status = "failed"

\* C9 as stated: for an orphan, with reprocess_orphans on and reprocess_all
\* off, exactly one set_tags call is issued, with Status success, no
\* generator call is made and the file is skipped.
C9_AsStated ==
    (Decided /\ Orphan(last.metadata) /\ config.reprocess_orphans
        /\ ~config.reprocess_all)
        => /\ Len(last.result.calls) = 1
           /\ last.result.calls[1].Status = "success"
           /\ last.result.gen_calls = 0
           /\ last.result.decision = "skip"

\* C9, amended: the same with dry_run off; with dry_run on no set_tags call is
\* issued, and the file is skipped without generator call all the same.
C9_OrphanRepaired ==
    (Decided /\ Orphan(last.metadata) /\ config.reprocess_orphans
        /\ ~config.reprocess_all)
        => /\ last.result.decision = "skip"
           /\ last.result.gen_calls = 0
           /\ last.result.llm_calls = 0
           /\ IF config.dry_run THEN last.result.calls = <<>>
              ELSE /\ Len(last.result.calls) = 1
                   /\ last.result.calls[1] =
                         [last.metadata EXCEPT !.Status = "success",
                                               !.keys = @ \cup {ST}]

C9_Witness ==
    /\ Decided /\ Orphan(last.metadata) /\ config.reprocess_orphans
    /\ ~config.reprocess_all /\ ~config.dry_run /\ last.env.write_ok
    /\ last.result.decision = "skip"
    /\ last.before.Status = None
    /\ disk[last.file].Status = "success"

\* C10 as stated: for an orphan, with reprocess_orphans and reprocess_all on,
\* check_uuid returns the dict and the file is not skipped.
C10_AsStated ==
    (Decided /\ Orphan(last.metadata) /\ config.reprocess_orphans
        /\ config.reprocess_all)
        => /\ LastCheck.ret = "metadata"
           /\ last.result.decision # "skip"

\* C11: a dict with an Identifier and Status failed is returned by check_uuid
\* with its Status cleared exactly when reprocess_failed or reprocess_all is
\* on; otherwise the file is skipped without generator call or write, in the
\* run after the failure as in any other.
C11_FailedSkipped ==
    (Decided /\ last.metadata.Identifier # 0 /\ last.metadata.Status = "failed")
        => IF config.reprocess_failed \/ config.reprocess_all
           THEN /\ last.result.decision # "skip"
                /\ LastCheck.ret = "metadata"
                /\ LastCheck.metadata.Status = None
           ELSE /\ last.result.decision = "skip"
                /\ LastCheck.ret = "None"
                /\ last.result.gen_calls = 0
                /\ last.result.llm_calls = 0
                /\ last.result.calls = <<>>
                /\ disk[last.file] = last.before

C11_Witness ==
    /\ run = 2 /\ NoReprocess /\ Decided
    /\ last.metadata.Identifier = 2
    /\ last.metadata.Status = "failed"
    /\ last.result.decision = "skip"

\* The keywords process_keywords normalizes: the existing ones when
\* update_keywords is on, and the new ones.
Given == (IF call.config.update_keywords THEN call.metadata.Keywords ELSE <<>>)
             \o call.new_keywords

\* C12: the list process_keywords returns holds no string twice and no
\* rejected value (None or the empty string), and each of its strings is the
\* normalization of one of the given keywords, whatever the list given.
C12_NoDuplicates ==
    (call.fn = "process_keywords" /\ returned.k = "list")
        => /\ \A i, j \in DOMAIN returned.v : returned.v[i] = returned.v[j] => i = j
           /\ \A i \in DOMAIN returned.v :
                 /\ returned.v[i] # <<>>
                 /\ \E g \in DOMAIN Given :
                       Normalize(Given[g], call.config.norm) = Str(returned.v[i])

\* Cats and " Cat " are given and normalize to the same string, kept once.
C12_Witness ==
    /\ call.fn = "process_keywords" /\ returned.k = "list"
    /\ call.config.norm.normalize_keywords
    /\ call.new_keywords = <<Cats, CatSpaced>>
    /\ returned.v = <<cat>>

\* C20: with skip_verify off, a file for which the tool reports errors gets no
\* generator call and no write, its Status stays as it was, and the files
\* after it in the batch are handled next.
C20_InvalidLeftOut ==
    (last.file # "" /\ ~config.skip_verify /\ last.before.errors > 0)
        => /\ last.result.decision = "invalid"
           /\ last.result.gen_calls = 0
           /\ last.result.llm_calls = 0
           /\ last.result.calls = <<>>
           /\ disk[last.file] = last.before
           /\ generated_run[last.file] = 0
           /\ metadata_list # <<>> => (pc = "batch" /\ waiting = "no")

C20_Witness ==
    /\ ~config.skip_verify
    /\ last.before.errors > 0
    /\ last.result.decision = "invalid"
    /\ last.before.Status = "success"
    /\ metadata_list # <<>>

\* C19 as stated: every pass of process_file over a file, whether it skips,
\* retries, succeeds or fails, hands at least one event for the file to the
\* progress callback.
C19_AsStated == Handled => last.result.events # <<>>

\* C17 as stated: whatever fails for one file (the read of its metadata, the
\* generator, process_file, the write), the other files of its batch and the
\* later batches are handled in the run: when the queue is drained, at most
\* one file of each batch the indexer found has not been handled.
Batches == Cardinality({d \in DOMAIN tree : tree[d] # <<>>})

C17_AsStated ==
    (pc = "done" /\ ended = "drained")
        => files_processed + Batches >= total_files_found

\* C13 as stated: the crawler sets its completion flag in every execution, a
\* failing listing included.  The thread that has ended without having set
\* the flag never sets it, so the claim needs the thread to be running as long
\* as the flag is not set.
C13_AsStated == indexer_alive \/ indexing_complete

\* C14 as stated: once the predicate has become true for good,
\* process_directory returns.  It cannot return from a state in which it has
\* not returned and none of its steps is possible, now or later.
C14_AsStated == stopped => (pc = "done" \/ ENABLED Orchestrator)

\* C15: whenever process_directory has ended, by a drained queue, by a stop or
\* by an exception leaving the loop, the tool has been terminated; and once it
\* has been terminated no batch is read, no file handled and no file written.
C15_ToolTerminated ==
    /\ [](pc = "done" => et_terminated)
    /\ [][et_terminated => /\ disk' = disk
                           /\ metadata_list' = metadata_list
                           /\ last' = last
                           /\ files_processed' = files_processed
                           /\ pc' = "done"]_vars

\* The run was stopped with a file of the batch and a batch on the queue left.
C15_Witness ==
    /\ pc = "done" /\ et_terminated /\ ended = "stop"
    /\ metadata_list # <<>>
    /\ metadata_queue # <<>>

\* C16 as stated: a pause ends with the orchestrator going on with the next
\* file, no file of the batch dropped: as long as the caller only pauses and
\* resumes, and never stops, process_directory does not end by a stop.
C16_AsStated == ended = "stop" => stopped

\* C18 as stated: a callback that raises changes nothing in what is written.
\* With a callback that returns, a run without dry_run that ends without a
\* stop and without a failed read, file, image or write leaves every valid
\* file it found with an Identifier; so it must with a callback that raises.
C18_AsStated ==
    (pc = "done" /\ ended # "stop" /\ ~fault_run /\ ~config.dry_run
        /\ (indexing_complete \/ ~callback_ok))
        => \A f \in FilesOf(tree) : disk[f].errors = 0 => disk[f].Identifier # 0

\* C25: a dict with an Identifier and Status retry is returned by check_uuid
\* with its Status cleared, whatever its Keywords and the flags; and so is,
\* under reprocess_all, every dict with an Identifier that gets to line 626,
\* which is every one but the orphan that reprocess_orphans repairs.
C25_RetryProceeds ==
    (/\ Decided
     /\ last.metadata.Identifier # 0
     /\ \/ last.metadata.Status = "retry"
        \/ config.reprocess_all
             /\ ~(Orphan(last.metadata) /\ config.reprocess_orphans))
        => /\ LastCheck.ret = "metadata"
           /\ LastCheck.metadata.Status = None
           /\ LastCheck.metadata.Identifier = last.metadata.Identifier
           /\ last.result.decision # "skip"

\* A retry with keywords, no reprocess flag set, is generated again.
C25_Witness ==
    /\ Decided /\ NoReprocess
    /\ last.metadata.Identifier # 0
    /\ last.metadata.Status = "retry"
    /\ last.metadata.Keywords # <<>>
    /\ last.result.gen_calls > 0

\* C26: with reprocess_all and reprocess_failed off, a dict with an Identifier
\* and no Status that is not repaired as an orphan is returned by check_uuid
\* exactly when it has no Keywords; with Keywords (an orphan, reprocess_orphans
\* off) the file is skipped and nothing is written.
C26_KeywordsDecide ==
    (/\ Decided /\ NoReprocess
     /\ last.metadata.Identifier # 0
     /\ last.metadata.Status = None
     /\ ~(Orphan(last.metadata) /\ config.reprocess_orphans))
        => IF last.metadata.Keywords = <<>>
           THEN /\ LastCheck.ret = "metadata"
                /\ last.result.decision # "skip"
           ELSE /\ LastCheck.ret = "None"
                /\ last.result.decision = "skip"
                /\ last.result.gen_calls = 0
                /\ last.result.calls = <<>>
                /\ disk[last.file] = last.before

C26_Witness ==
    /\ Decided /\ NoReprocess /\ ~config.reprocess_orphans
    /\ Orphan(last.metadata)
    /\ last.result.decision = "skip"
    /\ last.result.calls = <<>>

\* The call of process_file on the reduced answer has returned.
Processed == call.fn = "process_file" /\ returned # NoReturn

\* C21 as stated: with no_caption on, whatever update_caption,
\* detailed_caption and the caption the file has, every write of the pass
\* carries the Description the file had.
C21_AsStated ==
    (Processed /\ call.config.no_caption)
        => \A i \in DOMAIN returned.result.calls :
              DESC \in returned.result.calls[i].keys
                 => returned.result.calls[i].Description
                       = returned.metadata.Description

\* The response the last generate_metadata call of the pass was given.
Used ==
    IF Len(returned.result.attempts) = 2 THEN call.env.r2 ELSE call.env.r1

\* The accepted normalizations of a list of keywords.
AcceptedOf(keywords, norm) ==
    {Normalize(k, norm).v :
        k \in {x \in Range(keywords) :
                  Normalize(x, norm).k = "str" /\ Normalize(x, norm).v # <<>>}}

NoKeywords == Response("object", <<>>, <<"new">>, <<"long">>)

WithoutKeywords ==
    process_file(call.config, returned.metadata, call.uuid,
                 [call.env EXCEPT !.r1 = NoKeywords])

\* C30: describe_content returning None for a failed request, the first
\* generation has Status retry; it is followed by one more unless quick_fail
\* is on; when that one fails too, or there is none, the pass ends failed and
\* Status failed is written unless dry_run is on; decision, generations and
\* writes are those of a pass whose first answer is an object without
\* Keywords.
C30_TransportFailure ==
    (Processed /\ returned.result.attempts # <<>> /\ call.env.r1 = NoResponse)
        => /\ returned.result.attempts[1] = "retry"
           /\ IF call.config.quick_fail
              THEN /\ Len(returned.result.attempts) = 1
                   /\ returned.result.decision = "failed"
              ELSE /\ Len(returned.result.attempts) = 2
                   /\ call.env.r2 = NoResponse => returned.result.decision = "failed"
           /\ returned.result.decision = "failed"
                 => /\ returned.result.final.Status = "failed"
                    /\ ~call.config.dry_run
                          => /\ returned.result.calls # <<>>
                             /\ returned.result.calls[Len(returned.result.calls)].Status
                                   = "failed"
           /\ returned.result.decision = WithoutKeywords.decision
           /\ returned.result.attempts = WithoutKeywords.attempts
           /\ returned.result.calls = WithoutKeywords.calls

\* Both requests failed and Status failed was written.
C30_Witness ==
    /\ Processed
    /\ call.env.r1 = NoResponse /\ call.env.r2 = NoResponse
    /\ ~call.config.quick_fail /\ ~call.config.dry_run
    /\ Len(returned.result.attempts) = 2
    /\ returned.result.decision = "failed"
    /\ returned.result.calls # <<>>

\* The place of an alias name in the list of its concept.
Place(fields, name) == CHOOSE i \in DOMAIN fields : fields[i] = name

\* The first non-empty value met when the alias names are gone through in the
\* order of their list.
ByPriority(pairs, fields, empty) ==
    LET filled == {i \in DOMAIN pairs : pairs[i][2] # empty}
    IN  IF filled = {} THEN empty
        ELSE pairs[CHOOSE i \in filled :
                      \A j \in filled :
                         Place(fields, pairs[i][1]) <= Place(fields, pairs[j][1])][2]

\* C28 as stated: the reduced dict has, for Description, Status and Identifier,
\* the first non-empty value in the order of the alias lists, whatever the
\* order of the tool's answer, and for Keywords the values of all aliases.
C28_AsStated ==
    Processed
        => /\ returned.metadata.Description
                 = ByPriority(call.raw.captions, caption_fields, <<>>)
           /\ returned.metadata.Status
                 = ByPriority(call.raw.statuses, status_fields, None)
           /\ returned.metadata.Identifier
                 = ByPriority(call.raw.identifiers, identifier_fields, 0)
           /\ Range(returned.metadata.Keywords)
                 = UNION {Range(call.raw.keywords[i][2]) : i \in DOMAIN call.raw.keywords}

\* C27 as stated: no write of a pass whose writes all succeed, whether it
\* repairs an orphan, stores a failure or stores a success, carries a keyword
\* twice, also when the tool gave the file's keywords under more than one alias.
C27_AsStated ==
    (Processed /\ \A e \in DOMAIN returned.result.events :
                     returned.result.events[e] # "write_error")
        => \A c \in DOMAIN returned.result.calls :
              KW \in returned.result.calls[c].keys
                 => \A i, j \in DOMAIN returned.result.calls[c].Keywords :
                       returned.result.calls[c].Keywords[i]
                          = returned.result.calls[c].Keywords[j] => i = j

\* normalize_keyword has been applied to the call, with normalization on.
Normalized ==
    /\ call.fn = "normalize_keyword"
    /\ returned # NoReturn
    /\ call.config.normalize_keywords

\* The words normalize_keyword counts in the call's keyword: the tokens of the
\* cleaned text, a hyphenated token counting as its parts.
WordsIn == WordsOf(split(CleanKeyword(call.keyword, call.config)))

AndOr == {<<"a","n","d">>, <<"o","r">>}

\* The word in the middle of an odd number of words is 'and' or 'or'.
MiddleIsAndOr(words) ==
    /\ Len(words) % 2 = 1
    /\ words[(Len(words) + 1) \div 2] \in AndOr

\* C22 as stated: with limit_word_count on and max_words_per_keyword = N, a
\* keyword of more than N words is rejected, unless it has N+1 words and its
\* middle word is 'and' or 'or'.
C22_AsStated ==
    ( /\ Normalized
      /\ call.config.limit_word_count
      /\ Len(WordsIn) > call.config.max_words_per_keyword )
        => \/ returned = NoneStr
           \/ /\ Len(WordsIn) = call.config.max_words_per_keyword + 1
              /\ MiddleIsAndOr(WordsIn)

\* C23 as stated: whatever the keyword and the configuration, normalize_keyword
\* returns a string or the reject value; it does not raise.
C23_AsStated ==
    (call.fn = "normalize_keyword" /\ returned # NoReturn)
        => returned.k \in {"str", "None"}

\* The call's keyword has exactly three words, 'and' or 'or' in the middle, is
\* not on the allow-list, and split_and_entries is on.
ThreeAndOr ==
    /\ Normalized
    /\ call.config.split_and_entries
    /\ Len(WordsIn) = 3
    /\ WordsIn[2] \in AndOr
    /\ join(<<" ">>, WordsIn) \notin AND_EXCEPTIONS

\* One of the three words fails the length or the banned-word validation.
WordFails ==
    \E i \in DOMAIN WordsIn :
        \/ /\ call.config.min_word_length
           /\ Len(WordsIn[i]) < 2
           /\ WordsIn[i] \notin {<<"x">>, <<"u">>}
        \/ call.config.ban_prompt_words /\ WordsIn[i] \in banned_words

\* The first and the third word joined by one space, each singularized when
\* depluralize_keywords is on.
FirstAndThird ==
    IF call.config.depluralize_keywords
    THEN Str(de_pluralize(WordsIn[1]) \o <<" ">> \o de_pluralize(WordsIn[3]))
    ELSE Str(WordsIn[1] \o <<" ">> \o WordsIn[3])

\* C24 as stated: such a keyword gives its first and third words, and is
\* rejected only when one of its three words fails the length or the
\* banned-word validation.
C24_AsStated ==
    ThreeAndOr => returned = (IF WordFails THEN NoneStr ELSE FirstAndThird)

\* The keyword is rejected by a rule other than the validation of its words: a
\* token whose hyphen is not between two runs of word characters, the word
\* count when max_words_per_keyword + 1 is below three, or three leading digits.
OtherwiseRejected ==
    \/ \E t \in Range(split(CleanKeyword(call.keyword, call.config))) :
          "-" \in Range(t) /\ ~HyphenOk(t)
    \/ call.config.limit_word_count /\ call.config.max_words_per_keyword + 1 < 3
    \/ call.config.no_digits_start /\ DigitsStart(WordsIn[1])

\* C24: such a keyword gives its first and third words joined by one space,
\* each singularized when depluralize_keywords is on, unless it is rejected: by
\* the length or banned-word validation of one of its three words, by a
\* malformed hyphen, by the word count or by the leading digits of its first word.
C24_FirstAndThird ==
    ThreeAndOr
        => returned = (IF WordFails \/ OtherwiseRejected THEN NoneStr
                       ELSE FirstAndThird)

C24_Witness ==
    /\ ThreeAndOr
    /\ call.config.depluralize_keywords
    /\ call.keyword = <<"c","a","t","s"," ","a","n","d"," ","d","o","g","s">>
    /\ returned = Str(<<"c","a","t"," ","d","o","g">>)

\* The set_tags calls of the pass process_file made on the call's answer.
WritesOf == returned.result.calls

\* C34: every write process_file issues carries the key XMP:Status with the
\* value success or failed, never retry and never None.
C34_StatusWritten ==
    Processed
        => \A c \in DOMAIN WritesOf :
              /\ ST \in WritesOf[c].keys
              /\ WritesOf[c].Status \in {"success", "failed"}

\* A pass whose first generation gave Status retry and which wrote a record.
C34_Witness ==
    /\ Processed
    /\ returned.result.attempts # <<>>
    /\ returned.result.attempts[1] = "retry"
    /\ WritesOf # <<>>

\* No set_tags call of the pass raised.
AllWritten ==
    \A e \in DOMAIN returned.result.events :
        returned.result.events[e] # "write_error"

\* C35 as stated: a write with Status success that the tool accepts carries at
\* least one keyword.
C35_AsStated ==
    (Processed /\ AllWritten)
        => \A c \in DOMAIN WritesOf :
              WritesOf[c].Status = "success" => WritesOf[c].Keywords # <<>>

\* C36 as stated: a pass whose last generation returned an object with at
\* least one keyword that normalization accepts ends with Status success.
C36_AsStated ==
    ( /\ Processed
      /\ returned.result.attempts # <<>>
      /\ Used.kind = "object"
      /\ AcceptedOf(Used.Keywords, call.config.norm) # {} )
        => returned.result.decision = "success"

\* The keywords and the descriptions the tool's answer reports for the file.
KeywordsRead ==
    UNION {Range(call.raw.keywords[i][2]) : i \in DOMAIN call.raw.keywords}

DescriptionsRead ==
    IF call.raw.captions = <<>> THEN {<<>>}
    ELSE {call.raw.captions[i][2] : i \in DOMAIN call.raw.captions}

\* C37 as stated: the write that records Status failed carries the Identifier
\* the file had, a Description the file had, and exactly the keywords the file
\* had.
C37_AsStated ==
    (Processed /\ AllWritten /\ returned.result.decision = "failed")
        => \A c \in DOMAIN WritesOf :
              WritesOf[c].Status = "failed"
                 => /\ call.raw.identifiers # <<>>
                         => WritesOf[c].Identifier = Last(call.raw.identifiers, 0)
                    /\ WritesOf[c].Description \in DescriptionsRead
                    /\ Range(WritesOf[c].Keywords) = KeywordsRead

\* C38: in every state files_processed is at most total_files_found and
\* files_completed at most files_processed, so that total_files_found minus
\* files_processed is never negative.
C38_CountersOrdered ==
    /\ files_processed <= total_files_found
    /\ files_completed <= files_processed

\* The orchestrator has caught up with the crawler, which is still walking.
C38_Witness ==
    /\ ~indexing_complete
    /\ total_files_found > 0
    /\ files_processed = total_files_found
    /\ files_completed = files_processed

\* C33 as stated: when process_directory has returned without a stop, no
\* batch is left in the queue.
C33_AsStated ==
    (pc = "done" /\ ended # "stop") => metadata_queue = <<>>

\* The steps of the crawler thread.
CrawlerStep == IndexDirectory \/ IndexingDone \/ ListingFails

\* The variables the orchestrator thread writes, the queue apart.
OrchestratorFields ==
    <<pc, metadata_list, files_processed, files_completed, et_terminated, disk,
      next_uuid, history, pause, ended>>

\* The condition under which ProcessNext takes the next file of the batch.
CanProcessNext ==
    /\ pc \in {"batch", "poll"}
    /\ pc = "poll" => ~signal
    /\ waiting = "no"
    /\ metadata_list # <<>>

\* Which steps of process_directory and of the crawler are possible.
OrchestratorEnabled ==
    <<ENABLED Dequeue, ENABLED CallbackRaises, ENABLED GetTimeout,
      CanProcessNext, ENABLED EndBatch, ENABLED Exit, ENABLED ObservePause,
      ENABLED LeaveSpin, ENABLED Recheck>>

CrawlerEnabled == <<ENABLED IndexDirectory, ENABLED IndexingDone, ENABLED ListingFails>>

\* C32 as stated: the queue is the only state the two threads share, so a step
\* of the crawler that leaves the queue as it is changes nothing of what the
\* orchestrator can do next.
C32_AsStated ==
    [][(CrawlerStep /\ UNCHANGED metadata_queue)
          => OrchestratorEnabled' = OrchestratorEnabled]_vars

\* C32: the threads share the queue and the indexer's indexing_complete and
\* total_files_found, which the crawler writes and the orchestrator reads.  No
\* step of one thread writes a variable of the other, a crawler step that leaves
\* the three as they are changes nothing of what the orchestrator can do, and
\* an orchestrator step that leaves the queue as it is changes nothing of what
\* the crawler can do.
C32_SharedFields ==
    [][ /\ CrawlerStep => UNCHANGED OrchestratorFields
        /\ Orchestrator => UNCHANGED crawler
        /\ (CrawlerStep
              /\ UNCHANGED <<metadata_queue, indexing_complete, total_files_found>>)
              => OrchestratorEnabled' = OrchestratorEnabled
        /\ (Orchestrator /\ UNCHANGED metadata_queue)
              => CrawlerEnabled' = CrawlerEnabled ]_vars

\* The crawler's flag and an empty queue let the loop end after both batches.
C32_Witness ==
    /\ indexing_complete
    /\ metadata_queue = <<>>
    /\ pc = "loop"
    /\ waiting = "no"
    /\ total_files_found = 3
    /\ files_processed = 3

\* clean_json has been applied to a text.
Cleaned == call.fn = "clean_json" /\ returned # NoReturn /\ call.data.type = "str"

\* The result of the first attempt, in the order of the code, that gives an
\* object, the brace-wrapped attempt counting only with a Keywords entry.
FirstObject ==
    IF call.data.loads.type = "dict" THEN call.data.loads
    ELSE IF call.data.first.type = "dict" THEN call.data.first
    ELSE IF call.data.wrapped.type = "dict" /\ call.data.wrapped.Keywords
    THEN call.data.wrapped
    ELSE NoneValue

\* C31 as stated: clean_json returns an object or None, namely the result of
\* the first attempt that gives an object, the last attempt counting only when
\* its object has Keywords, and None when no attempt succeeds.
C31_AsStated ==
    Cleaned => /\ returned.type \in {"dict", "None"}
               /\ returned = FirstObject

=============================================================================
